---- MODULE Spec2Model ----
(***************************************************************************)
(* A model of the fabric CRUD helper library: the CRUD accessor            *)
(* (common/crud.py) over one mapped table, the error translator            *)
(* (exc/decorator.py, exc/exception.py) and the generated route handlers   *)
(* (routes/defaults.py, reference_routes/router_fabric.py).                *)
(*                                                                         *)
(* The store is the table as the session sees it: a sequence of rows in    *)
(* store order.  The table is one of a few representative mapped models    *)
(* that differ in their UniqueConstraint:                                  *)
(*   "note"  : id, sku, name          no uniqueness constraint             *)
(*   "item"  : id, sku, name          UniqueConstraint(sku)                *)
(*   "stock" : id, sku, lot, name     UniqueConstraint(sku, lot)           *)
(* and, for the branches of bulk_merge_create, two tables whose            *)
(* constraint covers every column but the identifier:                      *)
(*   "tag"   : id, sku                UniqueConstraint(sku)                *)
(*   "pair"  : id, sku, lot           UniqueConstraint(sku, lot)           *)
(* id is the auto-generated primary key, sku and lot are NOT NULL text     *)
(* columns, name is a nullable text column.  The store enforces the        *)
(* table's constraints as PostgreSQL does: a statement that would leave    *)
(* two rows with the same unique-key tuple fails as a whole.               *)
(***************************************************************************)
EXTENDS Integers, Sequences, FiniteSets, TLC

VARIABLES model, store, next_id, pre, req, res

vars == <<model, store, next_id, pre, req, res>>

(***************************************************************************)
(* Bounds of the model.                                                    *)
(***************************************************************************)
\* identifiers handed out by the primary-key sequence: 1..MaxId
MaxId == 2
\* rows in one bulk_merge_create batch: 0..MaxBatch
MaxBatch == 2
\* driver messages in the args of one fault: 0..MaxArgs
MaxArgs == 2

(***************************************************************************)
(* Program constants.                                                      *)
(***************************************************************************)
\* get_multi(..., limit: int | None = 100)
DefaultLimit == 100
\* NoResultFoundException.default_code
NotFoundCode == 404
\* IntegrityErrorException.default_code
IntegrityCode == 400

None == "None"

(***************************************************************************)
(* The mapped models.                                                      *)
(***************************************************************************)
Models == {"note", "item", "stock"}

\* the models and the tables without a column outside the constraint
Tables == Models \cup {"tag", "pair"}

\* {c.name for c in self._model.__table__.columns}
Columns(m) == CASE m = "stock" -> {"id", "sku", "lot", "name"}
                [] m = "tag"   -> {"id", "sku"}
                [] m = "pair"  -> {"id", "sku", "lot"}
                [] OTHER       -> {"id", "sku", "name"}

\* the column names of the table's UniqueConstraint objects, in order
unique_constr_names(m) ==
    CASE m = "item"  -> <<"sku">>
      [] m = "stock" -> <<"sku", "lot">>
      [] m = "tag"   -> <<"sku">>
      [] m = "pair"  -> <<"sku", "lot">>
      [] OTHER       -> <<>>

Skus == {"A1", "B2"}
Lots == {"L1", "L2"}
Names == {None, "X"}
Ids == 1..MaxId

\* the values a column can hold
Dom(c) == CASE c = "id"   -> Ids
            [] c = "sku"  -> Skus
            [] c = "lot"  -> Lots
            [] c = "name" -> Names

EmptyDict == [c \in {} |-> None]

\* every dict with exactly the keys S, each value taken from its column
RECURSIVE DictsOn(_)
DictsOn(S) ==
    IF S = {} THEN {EmptyDict}
    ELSE LET c == CHOOSE x \in S : TRUE
         IN  {(c :> v) @@ d : v \in Dom(c), d \in DictsOn(S \ {c})}

\* a full row dictionary of model m without its identifier
RowDicts(m) == DictsOn(Columns(m) \ {"id"})

\* sequences over S of length 0..n
RECURSIVE SeqsUpTo(_, _)
SeqsUpTo(S, n) ==
    IF n = 0 THEN {<<>>}
    ELSE LET shorter == SeqsUpTo(S, n - 1)
         IN  shorter \cup {Append(s, x) : s \in {t \in shorter : Len(t) = n - 1}, x \in S}

Range(s) == {s[i] : i \in 1..Len(s)}

(***************************************************************************)
(* Store helpers.                                                          *)
(***************************************************************************)
\* the tuple of a row's (or dict's) unique-constraint column values
KeyOf(names, d) == [i \in 1..Len(names) |-> d[names[i]]]

\* the store accepts a table state iff no two rows share a unique-key tuple
\* (a model without a UniqueConstraint accepts every state)
SatisfiesUnique(m, s) ==
    LET names == unique_constr_names(m)
    IN  names = <<>> \/
        \A i, j \in 1..Len(s) : i # j => KeyOf(names, s[i]) # KeyOf(names, s[j])

\* CRUDBase._generate_where_cause, and-ed by .where(*clauses):
\* every equality of the filter holds of the row; None or {} filters nothing
generate_where_cause(row, filter_dict) ==
    \A f \in DOMAIN filter_dict : row[f] = filter_dict[f]

\* SELECT ... WHERE, in store order
Select(s, filter_dict) ==
    SelectSeq(s, LAMBDA row : generate_where_cause(row, filter_dict))

\* the rows of a list of dicts as new model instances, identifiers taken
\* from the sequence starting at n
RECURSIVE NewRows(_, _)
NewRows(dicts, n) ==
    IF dicts = <<>> THEN <<>>
    ELSE <<("id" :> n) @@ Head(dicts)>> \o NewRows(Tail(dicts), n + 1)

(***************************************************************************)
(* The result of a CRUD accessor call: the outcome ("ok" or the fault      *)
(* raised), the rows returned, the store and the identifier sequence the   *)
(* call leaves.                                                            *)
(***************************************************************************)
Result(outcome, rows, s, n) ==
    [outcome |-> outcome, rows |-> rows, store |-> s, next_id |-> n]

(***************************************************************************)
(* CRUDBase.get_multi and CRUDBase.get_one.                                *)
(***************************************************************************)
\* a limit argument: None, or an integer
NoLimit == [is_none |-> TRUE, n |-> 0]
IntLimit(k) == [is_none |-> FALSE, n |-> k]

Min(a, b) == IF a < b THEN a ELSE b

\* (mutant) the offset is not applied
Offset_ignored(rows, offset) == rows

\* .offset(offset)
Offset(rows, offset) == SubSeq(rows, offset + 1, Len(rows))

\* .limit(limit)
Limit(rows, k) == SubSeq(rows, 1, Min(k, Len(rows)))

get_multi(s, n, filter_dict, offset, limit) ==
    LET stmt == Offset(Select(s, filter_dict), offset)
    IN  Result("ok", IF limit.is_none THEN stmt ELSE Limit(stmt, limit.n), s, n)

\* (mutant) .scalars().first(): the first of several matches is returned
get_one_first(s, n, filter_dict) ==
    LET found == Select(s, filter_dict)
    IN  IF Len(found) = 0 THEN Result("NoResultFound", <<>>, s, n)
        ELSE Result("ok", <<found[1]>>, s, n)

\* .scalars().one() raises the store's NoResultFound or MultipleResultsFound
get_one(s, n, filter_dict) ==
    LET found == Select(s, filter_dict)
    IN  CASE Len(found) = 1 -> Result("ok", found, s, n)
          [] Len(found) = 0 -> Result("NoResultFound", <<>>, s, n)
          [] OTHER          -> Result("MultipleResultsFound", <<>>, s, n)

(***************************************************************************)
(* CRUDBase.create.                                                        *)
(***************************************************************************)
\* INSERT of new rows without a conflict clause: all rows or, when the
\* result would break the uniqueness constraint, IntegrityError and none
PlainInsert(m, s, n, dicts) ==
    LET added == NewRows(dicts, n)
    IN  IF SatisfiesUnique(m, s \o added)
        THEN Result("ok", added, s \o added, n + Len(dicts))
        ELSE Result("IntegrityError", <<>>, s, n)

create(m, s, n, obj_in) == PlainInsert(m, s, n, <<obj_in>>)

(***************************************************************************)
(* CRUDBase.bulk_merge_create.                                             *)
(***************************************************************************)
column_to_update(m) == (Columns(m) \ Range(unique_constr_names(m))) \ {"id"}

\* d restricted to the columns S
Restrict(d, S) == [c \in DOMAIN d \cap S |-> d[c]]

HasKey(names, s, key) == \E i \in 1..Len(s) : KeyOf(names, s[i]) = key

\* one proposed row of INSERT ... ON CONFLICT (names) DO UPDATE SET
\* column = excluded.column for the columns to update
RECURSIVE OnConflictDoUpdate(_, _, _, _, _)
OnConflictDoUpdate(names, set_, s, n, dicts) ==
    IF dicts = <<>> THEN [store |-> s, next_id |-> n]
    ELSE LET d == Head(dicts)
             key == KeyOf(names, d)
         IN  IF HasKey(names, s, key)
             THEN OnConflictDoUpdate(names, set_,
                     [i \in 1..Len(s) |->
                         IF KeyOf(names, s[i]) = key
                         THEN Restrict(d, set_) @@ s[i] ELSE s[i]],
                     n, Tail(dicts))
             ELSE OnConflictDoUpdate(names, set_,
                     Append(s, ("id" :> n) @@ d), n + 1, Tail(dicts))

\* two proposed rows of one statement have the same conflict key
ProposedTwice(names, dicts) ==
    \E i, j \in 1..Len(dicts) :
        i # j /\ KeyOf(names, dicts[i]) = KeyOf(names, dicts[j])

\* the upsert statement of the single-column branch.  PostgreSQL refuses a
\* statement that would affect one row a second time (cardinality
\* violation, a ProgrammingError of the driver)
Upsert(m, s, n, dicts) ==
    LET names == unique_constr_names(m)
        done == OnConflictDoUpdate(names, column_to_update(m), s, n, dicts)
    IN  IF ProposedTwice(names, dicts)
        THEN Result("ProgrammingError", <<>>, s, n)
        ELSE Result("ok", <<>>, done.store, done.next_id)

\* (mutant) the first row with a key wins
RECURSIVE data_tuple_dict_first(_, _)
data_tuple_dict_first(names, dicts) ==
    IF dicts = <<>> THEN <<>>
    ELSE LET front == data_tuple_dict_first(names, SubSeq(dicts, 1, Len(dicts) - 1))
             d == dicts[Len(dicts)]
         IN  IF HasKey(names, front, KeyOf(names, d)) THEN front
             ELSE Append(front, d)

\* data_tuple_dict: the dict comprehension keyed by the unique-key tuple.
\* A Python dict keeps the position of a key's first insertion and the
\* value of its last.
RECURSIVE data_tuple_dict(_, _)
data_tuple_dict(names, dicts) ==
    IF dicts = <<>> THEN <<>>
    ELSE LET front == data_tuple_dict(names, SubSeq(dicts, 1, Len(dicts) - 1))
             d == dicts[Len(dicts)]
         IN  IF HasKey(names, front, KeyOf(names, d))
             THEN [i \in 1..Len(front) |->
                     IF KeyOf(names, front[i]) = KeyOf(names, d) THEN d ELSE front[i]]
             ELSE Append(front, d)

\* the value data_tuple_dict holds for key
Lookup(names, dtd, key) ==
    dtd[CHOOSE i \in 1..Len(dtd) : KeyOf(names, dtd[i]) = key]

\* (mutant) the incoming data is read but not removed
Pop_kept(names, dtd, key) == dtd

\* data_tuple_dict.pop(key)
Pop(names, dtd, key) == SelectSeq(dtd, LAMBDA d : KeyOf(names, d) # key)

\* the loop over existing_rows (the stored rows whose key is in the batch,
\* in store order): pop the row's incoming data and setattr every item;
\* a row whose key is already popped is skipped (KeyError)
RECURSIVE MergeExisting(_, _, _, _)
MergeExisting(names, s, i, dtd) ==
    IF i > Len(s) THEN [store |-> s, to_insert |-> dtd]
    ELSE LET row_key == KeyOf(names, s[i])
         IN  IF HasKey(names, dtd, row_key)
             THEN MergeExisting(names,
                     [s EXCEPT ![i] = Lookup(names, dtd, row_key) @@ s[i]],
                     i + 1, Pop(names, dtd, row_key))
             ELSE MergeExisting(names, s, i + 1, dtd)

\* the composite-key branch: dedup, query, update in place, insert the
\* rest, flush
MergeComposite(m, s, n, dicts) ==
    LET names == unique_constr_names(m)
        merged == MergeExisting(names, s, 1, data_tuple_dict(names, dicts))
        flushed == merged.store \o NewRows(merged.to_insert, n)
    IN  IF SatisfiesUnique(m, flushed)
        THEN Result("ok", <<>>, flushed, n + Len(merged.to_insert))
        ELSE Result("IntegrityError", <<>>, s, n)

\* (mutant) the single-column branch always sends the upsert statement
bulk_merge_create_upsert(m, s, n, obj_list, is_simple_insert) ==
    CASE is_simple_insert -> PlainInsert(m, s, n, obj_list)
      [] ~is_simple_insert /\ unique_constr_names(m) = <<>> ->
            PlainInsert(m, s, n, obj_list)
      [] ~is_simple_insert /\ Len(unique_constr_names(m)) = 1 ->
            Upsert(m, s, n, obj_list)
      [] OTHER -> MergeComposite(m, s, n, obj_list)

bulk_merge_create(m, s, n, obj_list, is_simple_insert) ==
    CASE is_simple_insert -> PlainInsert(m, s, n, obj_list)
      [] ~is_simple_insert /\ unique_constr_names(m) = <<>> ->
            PlainInsert(m, s, n, obj_list)
      [] ~is_simple_insert /\ Len(unique_constr_names(m)) = 1 ->
            IF column_to_update(m) = {}
            THEN PlainInsert(m, s, n, obj_list)
            ELSE Upsert(m, s, n, obj_list)
      [] OTHER -> MergeComposite(m, s, n, obj_list)

(***************************************************************************)
(* CRUDBase.update and CRUDBase.delete.                                    *)
(***************************************************************************)
\* (mutant) None values are kept
DropNone_kept(d) == d

\* {k: v for k, v in update_dict.items() if v is not None}
DropNone(d) == Restrict(d, {k \in DOMAIN d : d[k] # None})

\* UPDATE ... WHERE ... SET values: the matching rows with the values set
UpdateWhere(s, filter_dict, values) ==
    [i \in 1..Len(s) |->
        IF generate_where_cause(s[i], filter_dict) THEN values @@ s[i] ELSE s[i]]

\* (mutant) an UPDATE that affects no row is not reported
update_unchecked(m, s, n, filter_dict, update_dict, is_patch, raise_on_not_affected) ==
    LET values == IF is_patch THEN DropNone(update_dict) ELSE update_dict
        updated == UpdateWhere(s, filter_dict, values)
    IN  CASE DOMAIN values = {} -> Result("ProgrammingError", <<>>, s, n)
          [] DOMAIN values # {} /\ ~SatisfiesUnique(m, updated) ->
                Result("IntegrityError", <<>>, s, n)
          [] OTHER -> Result("ok", <<>>, updated, n)

\* An UPDATE with no value to set is rendered with an empty SET clause,
\* which the store rejects (syntax error, a ProgrammingError); an UPDATE
\* that would break the uniqueness constraint fails with IntegrityError.
update(m, s, n, filter_dict, update_dict, is_patch, raise_on_not_affected) ==
    LET values == IF is_patch THEN DropNone(update_dict) ELSE update_dict
        updated == UpdateWhere(s, filter_dict, values)
        rowcount == Len(Select(s, filter_dict))
    IN  CASE DOMAIN values = {} -> Result("ProgrammingError", <<>>, s, n)
          [] DOMAIN values # {} /\ ~SatisfiesUnique(m, updated) ->
                Result("IntegrityError", <<>>, s, n)
          [] OTHER ->
                IF raise_on_not_affected /\ rowcount = 0
                THEN Result("NoResultFoundException", <<>>, updated, n)
                ELSE Result("ok", <<>>, updated, n)

\* DELETE ... WHERE
DeleteWhere(s, filter_dict) ==
    SelectSeq(s, LAMBDA row : ~generate_where_cause(row, filter_dict))

\* (mutant) the affected-row count is not checked
delete_unchecked(s, n, filter_dict, raise_on_not_affected) ==
    Result("ok", <<>>, DeleteWhere(s, filter_dict), n)

delete(s, n, filter_dict, raise_on_not_affected) ==
    LET rowcount == Len(Select(s, filter_dict))
    IN  IF raise_on_not_affected /\ rowcount = 0
        THEN Result("NoResultFoundException", <<>>, DeleteWhere(s, filter_dict), n)
        ELSE Result("ok", <<>>, DeleteWhere(s, filter_dict), n)

(***************************************************************************)
(* The error translator: exc/exception.py and exc/decorator.py.            *)
(***************************************************************************)
\* the library's typed faults (subclasses of DataBaseException)
DataBaseExceptions == {"NoResultFoundException", "IntegrityErrorException"}

\* the store's native faults the wrapper catches
\* (StatementError, InvalidRequestError and their subclasses)
StoreErrors ==
    {"NoResultFound", "MultipleResultsFound", "IntegrityError", "ProgrammingError"}

default_exception(ex) ==
    CASE ex = "NoResultFoundException"  -> "NoResultFound"
      [] ex = "IntegrityErrorException" -> "IntegrityError"

default_code(ex) ==
    CASE ex = "NoResultFoundException"  -> NotFoundCode
      [] ex = "IntegrityErrorException" -> IntegrityCode

\* The detail of an error: a text (the pieces of the string, in order; none
\* when no detail was given), and for a refused CSV file the row and its
\* validation errors.
NoDetail == [text |-> <<>>, row |-> <<>>, errors |-> {}]

Text(pieces) == [NoDetail EXCEPT !.text = pieces]

\* default_detail(): the second is a template with one slot
default_detail(ex) ==
    CASE ex = "NoResultFoundException"  -> <<"The item not found">>
      [] ex = "IntegrityErrorException" -> <<"Got an error on add: ", "{}">>

\* str.format(value) on the pieces of a template
RECURSIVE Format(_, _)
Format(template, value) ==
    IF template = <<>> THEN <<>>
    ELSE (IF Head(template) = "{}" THEN value ELSE <<Head(template)>>)
         \o Format(Tail(template), value)

\* A driver message is the sequence of its pieces; ":" is a colon and " "
\* a blank.  The store's driver puts the class of its error, a colon and a
\* blank before the message of the server.
UniqueViolation ==
    <<"<class 'asyncpg.exceptions.UniqueViolationError'>", ":", " ",
      "duplicate key value violates unique constraint">>

SyntaxError ==
    <<"<class 'asyncpg.exceptions.PostgresSyntaxError'>", ":", " ",
      "syntax error">>

\* the fault as the wrapper catches it: its type, and exc.orig.args.
\* NoResultFound and MultipleResultsFound are raised by the library itself
\* and have no orig.
HasOrig(fault) == fault \in {"IntegrityError", "ProgrammingError"}

OrigArgs(fault) ==
    CASE fault = "IntegrityError" -> <<UniqueViolation>>
      [] fault = "ProgrammingError" -> <<SyntaxError>>
      [] OTHER -> <<>>

Orig(fault) ==
    [type |-> fault, has_orig |-> HasOrig(fault), args |-> OrigArgs(fault)]

\* the position of the first colon of a message, 0 when it has none
FirstColon(msg) ==
    LET colons == {i \in 1..Len(msg) : msg[i] = ":"}
    IN  IF colons = {} THEN 0 ELSE CHOOSE i \in colons : \A j \in colons : i <= j

\* pg_error.split(":", 1)[-1]: what follows the first colon, or the whole
\* message when it has no colon
SplitLast(msg) == SubSeq(msg, FirstColon(msg) + 1, Len(msg))

\* .strip(): without the blanks at both ends
RECURSIVE strip(_)
strip(msg) ==
    IF msg = <<>> THEN <<>>
    ELSE IF Head(msg) = " " THEN strip(Tail(msg))
    ELSE IF msg[Len(msg)] = " " THEN strip(SubSeq(msg, 1, Len(msg) - 1))
    ELSE msg

\* "; ".join(...) of the parts
RECURSIVE Join(_)
Join(parts) ==
    IF parts = <<>> THEN <<>>
    ELSE IF Len(parts) = 1 THEN Head(parts)
    ELSE Head(parts) \o <<"; ">> \o Join(Tail(parts))

\* (mutant) the messages are joined whole
get_string_value_whole(exc) ==
    IF exc.has_orig
    THEN Join([i \in 1..Len(exc.args) |-> strip(exc.args[i])])
    ELSE <<"'", exc.type, "' object has no attribute 'orig'">>

\* get_string_value: of each driver message the part after its first colon,
\* or the whole message when it has none; reading orig of a fault that has
\* none raises, and the text of that error is returned instead
get_string_value(exc) ==
    IF exc.has_orig
    THEN Join([i \in 1..Len(exc.args) |-> strip(SplitLast(exc.args[i]))])
    ELSE <<"'", exc.type, "' object has no attribute 'orig'">>

\* What a handler body did: it returned ("ok") or raised (the fault kind,
\* or "HTTPException"); code is the status an HTTPException carries or the
\* code a typed fault was constructed with (0: none given), detail the
\* detail it was constructed with; store and next_id are the session's;
\* calls lists, in order, the accessor, hook and session.commit() calls the
\* body made.
\* examined counts the CSV rows validated and passed is what
\* bulk_merge_create was called with (the CSV import sets them); orig is
\* the fault raised as the wrapper catches it.
NoPassed == [obj_list |-> <<>>, is_simple_insert |-> FALSE]

Body(outcome, code, detail, rows, s, n, calls) ==
    [outcome |-> outcome, code |-> code, detail |-> detail, rows |-> rows,
     store |-> s, next_id |-> n, calls |-> calls, examined |-> 0,
     passed |-> NoPassed, orig |-> Orig(outcome)]

\* the number of session.commit() calls among the calls
Commits(calls) == Cardinality({i \in 1..Len(calls) : calls[i] = "commit"})

\* what the web framework answers: the handler's result, the status and
\* detail of an HTTPException, or a server error for any other fault
Response(outcome, status, body, exception, wrapped) ==
    [outcome |-> outcome, status |-> status, detail |-> body.detail,
     rows |-> body.rows, store |-> body.store, next_id |-> body.next_id,
     calls |-> body.calls, commits |-> Commits(body.calls),
     examined |-> body.examined, passed |-> body.passed,
     raised |-> body.outcome, exception |-> exception, wrapped |-> wrapped]

\* HTTPException(status_code=status, detail=detail) raised by the wrapper
Translated(status, detail, body, exception) ==
    [Response("HTTPException", status, body, exception, TRUE)
        EXCEPT !.detail = detail]

Endpoint(body, exception, wrapped) ==
    CASE body.outcome = "ok" -> Response("ok", 200, body, exception, wrapped)
      [] body.outcome = "HTTPException" ->
            Response("HTTPException", body.code, body, exception, wrapped)
      [] OTHER -> Response(body.outcome, 500, body, exception, wrapped)

\* the position of the first declared kind whose native exception type the
\* fault is an instance of
FirstMatch(exception, fault) ==
    LET hits == {i \in 1..Len(exception) : default_exception(exception[i]) = fault}
    IN  IF hits = {} THEN 0 ELSE CHOOSE i \in hits : \A j \in hits : i <= j

\* (mutant) the typed faults are not caught
db_exception_wrapper_native_only(exception, body) ==
    IF body.outcome \in StoreErrors /\ FirstMatch(exception, body.outcome) # 0
    THEN Response("HTTPException",
                  default_code(exception[FirstMatch(exception, body.outcome)]),
                  body, exception, TRUE)
    ELSE Endpoint(body, exception, TRUE)

\* (mutant) a native fault is translated by the first declared kind, whatever
\* its type
db_exception_wrapper_any_native(exception, body) ==
    CASE body.outcome \in DataBaseExceptions ->
            Response("HTTPException",
                     IF body.code # 0 THEN body.code ELSE default_code(body.outcome),
                     body, exception, TRUE)
      [] body.outcome \in StoreErrors /\ exception # <<>> ->
            Response("HTTPException", default_code(exception[1]), body, exception, TRUE)
      [] OTHER -> Endpoint(body, exception, TRUE)

\* db_exception_wrapper(*exception)(func): e.code is the code the fault was
\* built with or its default code
db_exception_wrapper(exception, body) ==
    CASE body.outcome \in DataBaseExceptions ->
            Translated(IF body.code # 0 THEN body.code
                       ELSE default_code(body.outcome),
                       IF body.detail.text # <<>> THEN body.detail
                       ELSE Text(default_detail(body.outcome)),
                       body, exception)
      [] body.outcome \in StoreErrors /\ FirstMatch(exception, body.outcome) # 0 ->
            LET ex == exception[FirstMatch(exception, body.outcome)]
            IN  Translated(default_code(ex),
                           Text(Format(default_detail(ex),
                                       get_string_value(body.orig))),
                           body, exception)
      [] OTHER -> Endpoint(body, exception, TRUE)

(***************************************************************************)
(* The default route classes: routes/defaults.py.                          *)
(***************************************************************************)
\* result = await crud...(session, ...); await session.commit(); return:
\* a fault of the accessor leaves the handler before the commit, and the
\* session's changes are dropped with it
\* (mutant) the commit does not wait for the accessor's outcome
Committed_always(accessor, r, s, n) ==
    Body(r.outcome, 0, NoDetail, r.rows, r.store, r.next_id, <<accessor, "commit">>)

Committed(accessor, r, s, n) ==
    IF r.outcome = "ok"
    THEN Body("ok", 0, NoDetail, r.rows, r.store, r.next_id,
              <<accessor, "commit">>)
    ELSE Body(r.outcome, 0, NoDetail, <<>>, s, n, <<accessor>>)

\* model_dump(exclude_none=True); the identifier is a required integer,
\* never None
exclude_none(payload) ==
    [c \in {k \in DOMAIN payload : k = "id" \/ payload[k] # None} |-> payload[c]]

\* the handler of GetAllRoute: no wrapper and no commit
GetAllRoute(s, n, filter_model, offset, limit) ==
    LET r == get_multi(s, n, exclude_none(filter_model), offset, IntLimit(limit))
    IN  Endpoint(Body(r.outcome, 0, NoDetail, r.rows, s, n, <<"get_multi">>),
                 <<>>, FALSE)

GetOneRoute(s, n, identity_filter) ==
    db_exception_wrapper(<<"NoResultFoundException">>,
        Committed("get_one", get_one(s, n, exclude_none(identity_filter)), s, n))

\* the create handler carries no db_exception_wrapper
CreateRoute(m, s, n, payload) ==
    Endpoint(Committed("create", create(m, s, n, payload), s, n), <<>>, FALSE)

UpdateRoute(m, s, n, payload, identity_filter) ==
    db_exception_wrapper(<<"NoResultFoundException", "IntegrityErrorException">>,
        Committed("update",
                  update(m, s, n, exclude_none(identity_filter), payload, FALSE, TRUE),
                  s, n))

\* (mutant) the changes are not checked for being empty
PatchBody_unchecked(m, s, n, payload, identity_filter) ==
    Committed("update",
              update(m, s, n, exclude_none(identity_filter), exclude_none(payload),
                     TRUE, TRUE), s, n)

\* the body of both PATCH handlers after the filter is built
PatchBody(m, s, n, payload, identity_filter) ==
    LET changes == exclude_none(payload)
    IN  IF DOMAIN changes = {}
        THEN Body("IntegrityErrorException", 0,
                  Text(<<"There are no info in the input data">>), <<>>, s, n, <<>>)
        ELSE Committed("update", update(m, s, n, exclude_none(identity_filter), changes,
                              TRUE, TRUE), s, n)

PatchRoute(m, s, n, payload, identity_filter) ==
    db_exception_wrapper(<<"NoResultFoundException", "IntegrityErrorException">>,
        PatchBody(m, s, n, payload, identity_filter))

DeleteRoute(s, n, identity_filter) ==
    db_exception_wrapper(<<"NoResultFoundException", "IntegrityErrorException">>,
        Committed("delete", delete(s, n, exclude_none(identity_filter), TRUE), s, n))

(***************************************************************************)
(* The default router: router/default.py.                                  *)
(***************************************************************************)
\* an optional list of method names: None, or the names it holds
NoList == [is_none |-> TRUE, methods |-> {}]

List(S) == [is_none |-> FALSE, methods |-> S]

\* the keys of route_map
AllowedMethod == {"get_all", "get_one", "create", "update", "patch", "delete"}

\* generate_default_router: the routes registered are those of
\* allowed_methods, of all methods when it is None
generate_default_router(allowed) ==
    IF allowed.is_none THEN AllowedMethod ELSE allowed.methods \cap AllowedMethod

\* the path each route registers: get_all on "", the others on "/"
PathOf(method) == IF method = "get_all" THEN "" ELSE "/"

\* a request for the method on the router: the registered handler's
\* response, or the web framework's answer when no route matches (405 when
\* the path is registered for another method, else 404); no handler runs
Routed(method, registered, s, n, response) ==
    IF method \in registered THEN response
    ELSE Endpoint(Body("HTTPException",
                       IF \E o \in registered : PathOf(o) = PathOf(method)
                       THEN 405 ELSE 404,
                       NoDetail, <<>>, s, n, <<>>), <<>>, FALSE)

(***************************************************************************)
(* The reference route pack: reference_routes/router_fabric.py.            *)
(***************************************************************************)
Method == {"get_all", "get_one", "post", "csv", "put", "patch", "delete"}

\* (mutant) the excluded methods are not taken out
allowed_methods_unexcluded(allowed, excluded) ==
    IF allowed.is_none \/ allowed.methods = {} THEN Method ELSE allowed.methods

\* allowed_methods = set(allowed_methods or list(Method)).difference(excluded)
allowed_methods(allowed, excluded) ==
    (IF allowed.is_none \/ allowed.methods = {} THEN Method ELSE allowed.methods)
    \ excluded

\* custom_route_awaitable.get(method): no custom method, or one that
\* returns or raises as it likes
NoCustom == [given |-> FALSE, outcome |-> "ok", code |-> 0]

CustomMethods ==
    {[given |-> TRUE, outcome |-> o, code |-> 0] :
        o \in {"ok", "Exception"} \cup DataBaseExceptions \cup StoreErrors}
    \cup {[given |-> TRUE, outcome |-> "IntegrityErrorException", code |-> 409]}

\* not_found(method), then the custom method if there is one, else the
\* built-in body
Common(method, allowed, custom, s, n, body) ==
    CASE method \notin allowed ->
            Body("HTTPException", 400, Text(<<"Not found">>), <<>>, s, n, <<>>)
      [] method \in allowed /\ custom.given ->
            Body(custom.outcome, custom.code, NoDetail, <<>>, s, n, <<"custom">>)
      [] OTHER -> body

\* get_all_commons carries no wrapper and does not commit
get_all_commons(allowed, custom, s, n, filter_model, offset, limit) ==
    LET r == get_multi(s, n, exclude_none(filter_model), offset, IntLimit(limit))
    IN  Endpoint(Common("get_all", allowed, custom, s, n,
                        Body(r.outcome, 0, NoDetail, r.rows, s, n, <<"get_multi">>)),
                 <<>>, FALSE)

get_one_common(allowed, custom, s, n, identity_filter) ==
    db_exception_wrapper(<<"NoResultFoundException">>,
        Common("get_one", allowed, custom, s, n,
               Committed("get_one", get_one(s, n, exclude_none(identity_filter)), s, n)))

create_common(allowed, custom, m, s, n, payload) ==
    db_exception_wrapper(<<"IntegrityErrorException">>,
        Common("post", allowed, custom, s, n,
               Committed("create", create(m, s, n, payload), s, n)))

\* fabric.base(**row): the base schema of the model requires its key
\* columns and leaves name optional; the fields that fail validation
ValidationErrors(m, row) == {c \in Columns(m) \ {"id", "name"} : row[c] = None}

\* (mutant) a failing row is skipped and the later rows are read
RECURSIVE parse_csv_skipping(_, _)
parse_csv_skipping(m, file) ==
    IF file = <<>>
    THEN [failed |-> FALSE, result |-> <<>>, row |-> <<>>, errors |-> {},
          examined |-> 0]
    ELSE LET rest == parse_csv_skipping(m, Tail(file))
         IN  [rest EXCEPT !.result = (IF ValidationErrors(m, Head(file)) = {}
                                      THEN <<Head(file)>> ELSE <<>>) \o @,
                          !.examined = @ + 1]

\* parse_csv: the rows of the file in order, each validated against the
\* base schema; the first row that fails raises CsvError(row, error) and no
\* later row is read
RECURSIVE parse_csv(_, _)
parse_csv(m, file) ==
    IF file = <<>>
    THEN [failed |-> FALSE, result |-> <<>>, row |-> <<>>, errors |-> {},
          examined |-> 0]
    ELSE IF ValidationErrors(m, Head(file)) # {}
    THEN [failed |-> TRUE, result |-> <<>>, row |-> Head(file),
          errors |-> ValidationErrors(m, Head(file)), examined |-> 1]
    ELSE LET rest == parse_csv(m, Tail(file))
         IN  [rest EXCEPT !.result = <<Head(file)>> \o @, !.examined = @ + 1]

\* csv_preparer: no hook ("None"), a hook that returns the rows without the
\* first ("tail"), or a hook that raises ("raise")
CsvPreparers == {"None", "tail", "raise"}

\* (mutant) the hook returns the rows as they are
csv_preparer_same(hook, csv_dict) == csv_dict

csv_preparer(hook, csv_dict) ==
    IF hook = "tail" /\ csv_dict # <<>> THEN Tail(csv_dict) ELSE csv_dict

\* the handler after not_found: parse, the hook if there is one,
\* bulk_merge_create, commit
CsvBody(hook, m, s, n, file, mode) ==
    LET parsed   == parse_csv(m, file)
        csv_dict == IF hook = "None" THEN parsed.result
                    ELSE csv_preparer(hook, parsed.result)
        before   == IF hook = "None" THEN <<>> ELSE <<"csv_preparer">>
        passed   == [obj_list |-> csv_dict, is_simple_insert |-> (mode = "insert")]
        r        == bulk_merge_create(m, s, n, csv_dict, mode = "insert")
    IN  CASE parsed.failed ->
                [Body("HTTPException", 400,
                      [NoDetail EXCEPT !.row = parsed.row, !.errors = parsed.errors],
                      <<>>, s, n, <<>>)
                    EXCEPT !.examined = parsed.examined]
          [] ~parsed.failed /\ hook = "raise" ->
                [Body("Exception", 0, NoDetail, <<>>, s, n, before)
                    EXCEPT !.examined = parsed.examined]
          [] ~parsed.failed /\ hook # "raise" /\ r.outcome = "ok" ->
                [Body("ok", 0, NoDetail, <<>>, r.store, r.next_id,
                      before \o <<"bulk_merge_create", "commit">>)
                    EXCEPT !.examined = parsed.examined, !.passed = passed]
          [] OTHER ->
                [Body(r.outcome, 0, NoDetail, <<>>, s, n,
                      before \o <<"bulk_merge_create">>)
                    EXCEPT !.examined = parsed.examined, !.passed = passed]

\* mode: CsvMode = CsvMode.merge: a request without a mode is a merge
create_common_from_csv(allowed, hook, m, s, n, file, mode) ==
    db_exception_wrapper(<<"IntegrityErrorException">>,
        IF "csv" \notin allowed
        THEN Body("HTTPException", 400, Text(<<"Not found">>), <<>>, s, n, <<>>)
        ELSE CsvBody(hook, m, s, n, file, IF mode = None THEN "merge" ELSE mode))

update_common_fields(allowed, custom, m, s, n, payload, identity_filter) ==
    db_exception_wrapper(<<"NoResultFoundException", "IntegrityErrorException">>,
        Common("patch", allowed, custom, s, n,
               PatchBody(m, s, n, payload, identity_filter)))

change_common(allowed, custom, m, s, n, payload, identity_filter) ==
    db_exception_wrapper(<<"NoResultFoundException", "IntegrityErrorException">>,
        Common("put", allowed, custom, s, n,
               Committed("update", update(m, s, n, exclude_none(identity_filter), payload,
                                FALSE, TRUE), s, n)))

delete_common(allowed, custom, s, n, identity_filter) ==
    db_exception_wrapper(<<"NoResultFoundException", "IntegrityErrorException">>,
        Common("delete", allowed, custom, s, n,
               Committed("delete", delete(s, n, exclude_none(identity_filter), TRUE), s, n)))

(***************************************************************************)
(* The requests.  req records the last call and its arguments, pre the     *)
(* store before it, res what the caller got back.                          *)
(***************************************************************************)
\* the filter dictionaries tried: no equality, one, or sku and name together
Filters ==
    UNION {DictsOn(S) : S \in {{}, {"id"}, {"sku"}, {"name"}, {"sku", "name"}}}

\* the update dictionaries tried: any values for any of sku and name
Changes == UNION {DictsOn(S) : S \in SUBSET {"sku", "name"}}

\* the batches tried
Batches(m) == SeqsUpTo(RowDicts(m), MaxBatch)

NoReq ==
    [op |-> "none", filter_dict |-> EmptyDict, update_dict |-> EmptyDict,
     obj_list |-> <<>>, is_patch |-> FALSE, raise_on_not_affected |-> FALSE,
     is_simple_insert |-> FALSE, offset |-> 0, limit_given |-> FALSE,
     limit |-> NoLimit, payload |-> EmptyDict, allowed_methods |-> NoList,
     excluded_methods |-> {},
     custom |-> NoCustom, file |-> <<>>, mode |-> "merge",
     csv_preparer |-> "None"]

\* nothing has been answered
NoRes ==
    [outcome |-> "ok", rows |-> <<>>, status |-> 0, detail |-> NoDetail,
     calls |-> <<>>, commits |-> 0, examined |-> 0, passed |-> NoPassed,
     raised |-> "ok", exception |-> <<>>, wrapped |-> FALSE]

\* no request is being served
Idle == req.op = "none"

\* what the caller of a CRUD accessor method gets back
Returned(r) == [NoRes EXCEPT !.outcome = r.outcome, !.rows = r.rows]

\* the session after a CRUD accessor call: a statement that raised changed
\* nothing
Call(r) ==
    /\ Idle
    /\ r.next_id <= MaxId + 1
    /\ pre' = store
    /\ store' = r.store
    /\ next_id' = r.next_id
    /\ res' = Returned(r)
    /\ UNCHANGED model

Init ==
    /\ model \in Models
    /\ store = <<>>
    /\ next_id = 1
    /\ pre = <<>>
    /\ req = NoReq
    /\ res = NoRes

GetMulti ==
    /\ Idle
    /\ \E f \in Filters, o \in 0..MaxId, given \in BOOLEAN,
       l \in {NoLimit} \cup {IntLimit(k) : k \in 0..MaxId} :
        /\ req' = [NoReq EXCEPT !.op = "get_multi", !.filter_dict = f, !.offset = o,
                                !.limit_given = given,
                                !.limit = IF given THEN l ELSE NoLimit]
        /\ Call(get_multi(store, next_id, f, o, IF given THEN l ELSE IntLimit(DefaultLimit)))

GetOne ==
    /\ Idle
    /\ \E f \in Filters :
        /\ req' = [NoReq EXCEPT !.op = "get_one", !.filter_dict = f]
        /\ Call(get_one(store, next_id, f))

Create ==
    /\ Idle
    /\ \E obj_in \in RowDicts(model) :
        /\ req' = [NoReq EXCEPT !.op = "create", !.obj_list = <<obj_in>>]
        /\ Call(create(model, store, next_id, obj_in))

BulkMergeCreate ==
    /\ Idle
    /\ \E obj_list \in Batches(model), is_simple_insert \in BOOLEAN :
        /\ req' = [NoReq EXCEPT !.op = "bulk_merge_create", !.obj_list = obj_list,
                                !.is_simple_insert = is_simple_insert]
        /\ Call(bulk_merge_create(model, store, next_id, obj_list, is_simple_insert))

\* the same batch is submitted a second time, in the same mode
BulkMergeCreateAgain ==
    /\ req.op = "bulk_merge_create"
    /\ res.outcome = "ok"
    /\ req' = [req EXCEPT !.op = "bulk_merge_create_again"]
    /\ LET r == bulk_merge_create(model, store, next_id, req.obj_list,
                                  req.is_simple_insert)
       IN  /\ r.next_id <= MaxId + 1
           /\ pre' = store
           /\ store' = r.store
           /\ next_id' = r.next_id
           /\ res' = Returned(r)
    /\ UNCHANGED model

Update ==
    /\ Idle
    /\ \E f \in Filters, update_dict \in Changes, is_patch \in BOOLEAN,
       raise_on_not_affected \in BOOLEAN :
        /\ req' = [NoReq EXCEPT !.op = "update", !.filter_dict = f,
                                !.update_dict = update_dict, !.is_patch = is_patch,
                                !.raise_on_not_affected = raise_on_not_affected]
        /\ Call(update(model, store, next_id, f, update_dict, is_patch,
                       raise_on_not_affected))

Delete ==
    /\ Idle
    /\ \E f \in Filters, raise_on_not_affected \in BOOLEAN :
        /\ req' = [NoReq EXCEPT !.op = "delete", !.filter_dict = f,
                                !.raise_on_not_affected = raise_on_not_affected]
        /\ Call(delete(store, next_id, f, raise_on_not_affected))

(***************************************************************************)
(* Requests to the generated handlers.                                     *)
(***************************************************************************)
\* the identity filters tried: the primary key
IdentityFilters == DictsOn({"id"})

\* a patch payload: every column but the identifier, each optional
RECURSIVE OptionalDictsOn(_)
OptionalDictsOn(S) ==
    IF S = {} THEN {EmptyDict}
    ELSE LET c == CHOOSE x \in S : TRUE
         IN  {(c :> v) @@ d : v \in Dom(c) \cup {None}, d \in OptionalDictsOn(S \ {c})}

PatchPayloads(m) == OptionalDictsOn(Columns(m) \ {"id"})

\* what the handler answered, as the client sees it
Answered(h) ==
    [outcome |-> h.outcome, rows |-> h.rows, status |-> h.status,
     detail |-> h.detail, calls |-> h.calls, commits |-> h.commits,
     examined |-> h.examined, passed |-> h.passed,
     raised |-> h.raised, exception |-> h.exception, wrapped |-> h.wrapped]

\* one request served by a handler: the session is closed after it, and
\* what was not committed is rolled back
Serve(h) ==
    /\ h.next_id <= MaxId + 1
    /\ pre' = store
    /\ store' = IF h.commits > 0 THEN h.store ELSE store
    /\ next_id' = IF h.commits > 0 THEN h.next_id ELSE next_id
    /\ res' = Answered(h)
    /\ UNCHANGED model

\* one request of a set
OneOf(S) == CHOOSE x \in S : TRUE

\* the default routers tried for a request of the method: allowed_methods
\* None, empty, only the method, or all but the method.  A request that
\* reaches no handler is answered whatever it holds, so one request stands
\* for all where the same answer was already tried.
DefaultRouters(method) ==
    {NoList, List({}), List({method}), List(AllowedMethod \ {method})}

DefaultTried(method, S) ==
    {[allowed |-> a, input |-> x] : a \in {NoList, List({method})}, x \in S}
    \cup {[allowed |-> a, input |-> OneOf(S)] : a \in DefaultRouters(method)}

\* the reference routers tried for a request of the method
Routers(method) ==
    {[allowed |-> a, excluded |-> x] :
        a \in {NoList, List({}), List({method}), List(Method \ {method})},
        x \in {{}, {method}, Method \ {method}}}

\* with every request S: the router with no list, and the router that
\* allows only the method and excludes all others; with one request: every
\* router, and every custom method (a custom method answers as it likes
\* whatever the request)
Tried(method, S) ==
    {[router |-> r, custom |-> NoCustom, input |-> x] :
        r \in {[allowed |-> NoList, excluded |-> {}],
               [allowed |-> List({method}), excluded |-> Method \ {method}]},
        x \in S}
    \cup {[router |-> r, custom |-> c, input |-> OneOf(S)] :
            r \in Routers(method), c \in {NoCustom} \cup CustomMethods}

\* the list queries tried: filter, offset, limit
GetAllQueries(m) == PatchPayloads(m) \X {0, 1} \X {1, DefaultLimit}

ServeGetAllRoute ==
    /\ Idle
    /\ \E t \in DefaultTried("get_all", GetAllQueries(model)) :
        /\ req' = [NoReq EXCEPT !.op = "GetAllRoute", !.payload = t.input[1],
                                !.offset = t.input[2], !.limit_given = TRUE,
                                !.limit = IntLimit(t.input[3]),
                                !.allowed_methods = t.allowed]
        /\ Serve(Routed("get_all", generate_default_router(t.allowed),
                        store, next_id,
                        GetAllRoute(store, next_id, t.input[1], t.input[2],
                                    t.input[3])))

ServeGetOneRoute ==
    /\ Idle
    /\ \E t \in DefaultTried("get_one", IdentityFilters) :
        /\ req' = [NoReq EXCEPT !.op = "GetOneRoute", !.filter_dict = t.input,
                                !.allowed_methods = t.allowed]
        /\ Serve(Routed("get_one", generate_default_router(t.allowed),
                        store, next_id, GetOneRoute(store, next_id, t.input)))

ServeCreateRoute ==
    /\ Idle
    /\ \E t \in DefaultTried("create", RowDicts(model)) :
        /\ req' = [NoReq EXCEPT !.op = "CreateRoute", !.payload = t.input,
                                !.allowed_methods = t.allowed]
        /\ Serve(Routed("create", generate_default_router(t.allowed),
                        store, next_id,
                        CreateRoute(model, store, next_id, t.input)))

ServeUpdateRoute ==
    /\ Idle
    /\ \E t \in DefaultTried("update", IdentityFilters \X RowDicts(model)) :
        /\ req' = [NoReq EXCEPT !.op = "UpdateRoute", !.filter_dict = t.input[1],
                                !.payload = t.input[2],
                                !.allowed_methods = t.allowed]
        /\ Serve(Routed("update", generate_default_router(t.allowed),
                        store, next_id,
                        UpdateRoute(model, store, next_id, t.input[2], t.input[1])))

ServePatchRoute ==
    /\ Idle
    /\ \E t \in DefaultTried("patch", IdentityFilters \X PatchPayloads(model)) :
        /\ req' = [NoReq EXCEPT !.op = "PatchRoute", !.filter_dict = t.input[1],
                                !.payload = t.input[2],
                                !.allowed_methods = t.allowed]
        /\ Serve(Routed("patch", generate_default_router(t.allowed),
                        store, next_id,
                        PatchRoute(model, store, next_id, t.input[2], t.input[1])))

ServeDeleteRoute ==
    /\ Idle
    /\ \E t \in DefaultTried("delete", IdentityFilters) :
        /\ req' = [NoReq EXCEPT !.op = "DeleteRoute", !.filter_dict = t.input,
                                !.allowed_methods = t.allowed]
        /\ Serve(Routed("delete", generate_default_router(t.allowed),
                        store, next_id, DeleteRoute(store, next_id, t.input)))

Serve_get_all_commons ==
    /\ Idle
    /\ \E t \in Tried("get_all", GetAllQueries(model)) :
        /\ req' = [NoReq EXCEPT !.op = "get_all_commons", !.payload = t.input[1],
                                !.offset = t.input[2], !.limit_given = TRUE,
                                !.limit = IntLimit(t.input[3]),
                                !.allowed_methods = t.router.allowed,
                                !.excluded_methods = t.router.excluded,
                                !.custom = t.custom]
        /\ Serve(get_all_commons(
                     allowed_methods(t.router.allowed, t.router.excluded),
                     t.custom, store, next_id, t.input[1], t.input[2], t.input[3]))

Serve_get_one_common ==
    /\ Idle
    /\ \E t \in Tried("get_one", IdentityFilters) :
        /\ req' = [NoReq EXCEPT !.op = "get_one_common", !.filter_dict = t.input,
                                !.allowed_methods = t.router.allowed,
                                !.excluded_methods = t.router.excluded,
                                !.custom = t.custom]
        /\ Serve(get_one_common(
                     allowed_methods(t.router.allowed, t.router.excluded),
                     t.custom, store, next_id, t.input))

Serve_create_common ==
    /\ Idle
    /\ \E t \in Tried("post", RowDicts(model)) :
        /\ req' = [NoReq EXCEPT !.op = "create_common", !.payload = t.input,
                                !.allowed_methods = t.router.allowed,
                                !.excluded_methods = t.router.excluded,
                                !.custom = t.custom]
        /\ Serve(create_common(
                     allowed_methods(t.router.allowed, t.router.excluded),
                     t.custom, model, store, next_id, t.input))

\* the rows of the CSV files tried: the file gives no name, and a short
\* line leaves its trailing columns None (DictReader's restval)
CsvRows(m) ==
    {row \in OptionalDictsOn(Columns(m) \ {"id"}) :
        /\ row["name"] = None
        /\ (m = "stock" /\ row["sku"] = None) => row["lot"] = None}

CsvFiles(m) == SeqsUpTo(CsvRows(m), MaxBatch)

CsvModes == {"insert", "merge"}

\* the imports tried: hook, file, mode (None: the request gives no mode,
\* tried with the hook that returns); a hook that raises does so whatever
\* the rows, and is tried in merge mode with files of at most one row
CsvImports(m) ==
    {i \in CsvPreparers \X CsvFiles(m) \X (CsvModes \cup {None}) :
        /\ i[1] = "raise" => (i[3] = "merge" /\ Len(i[2]) <= 1)
        /\ i[3] = None => i[1] = "tail"}

\* the import handler takes no custom method; the imports are tried on the
\* unrestricted router, one import on every router
Serve_create_common_from_csv ==
    /\ Idle
    /\ \E t \in {[router |-> [allowed |-> NoList, excluded |-> {}],
                   custom |-> NoCustom, input |-> x] : x \in CsvImports(model)}
               \cup {[router |-> r, custom |-> NoCustom,
                      input |-> <<"None", <<>>, "merge">>] :
                        r \in Routers("csv")} :
        /\ req' = [NoReq EXCEPT !.op = "create_common_from_csv",
                                !.csv_preparer = t.input[1], !.file = t.input[2],
                                !.mode = t.input[3],
                                !.allowed_methods = t.router.allowed,
                                !.excluded_methods = t.router.excluded]
        /\ Serve(create_common_from_csv(
                     allowed_methods(t.router.allowed, t.router.excluded),
                     t.input[1], model, store, next_id, t.input[2], t.input[3]))

Serve_update_common_fields ==
    /\ Idle
    /\ \E t \in Tried("patch", IdentityFilters \X PatchPayloads(model)) :
        /\ req' = [NoReq EXCEPT !.op = "update_common_fields",
                                !.filter_dict = t.input[1], !.payload = t.input[2],
                                !.allowed_methods = t.router.allowed,
                                !.excluded_methods = t.router.excluded,
                                !.custom = t.custom]
        /\ Serve(update_common_fields(
                     allowed_methods(t.router.allowed, t.router.excluded),
                     t.custom, model, store, next_id, t.input[2], t.input[1]))

Serve_change_common ==
    /\ Idle
    /\ \E t \in Tried("put", IdentityFilters \X RowDicts(model)) :
        /\ req' = [NoReq EXCEPT !.op = "change_common",
                                !.filter_dict = t.input[1], !.payload = t.input[2],
                                !.allowed_methods = t.router.allowed,
                                !.excluded_methods = t.router.excluded,
                                !.custom = t.custom]
        /\ Serve(change_common(
                     allowed_methods(t.router.allowed, t.router.excluded),
                     t.custom, model, store, next_id, t.input[2], t.input[1]))

Serve_delete_common ==
    /\ Idle
    /\ \E t \in Tried("delete", IdentityFilters) :
        /\ req' = [NoReq EXCEPT !.op = "delete_common", !.filter_dict = t.input,
                                !.allowed_methods = t.router.allowed,
                                !.excluded_methods = t.router.excluded,
                                !.custom = t.custom]
        /\ Serve(delete_common(
                     allowed_methods(t.router.allowed, t.router.excluded),
                     t.custom, store, next_id, t.input))

\* the caller has its answer; the next request can be served
Finish ==
    /\ ~Idle
    /\ req' = NoReq
    /\ pre' = store
    /\ res' = NoRes
    /\ UNCHANGED <<model, store, next_id>>

Next ==
    \/ GetMulti
    \/ GetOne
    \/ Create
    \/ BulkMergeCreate
    \/ BulkMergeCreateAgain
    \/ Update
    \/ Delete
    \/ Finish

\* the accessor used directly
Spec == Init /\ [][Next]_vars

RouteNext ==
    \/ ServeGetAllRoute
    \/ ServeGetOneRoute
    \/ ServeCreateRoute
    \/ ServeUpdateRoute
    \/ ServePatchRoute
    \/ ServeDeleteRoute
    \/ Serve_get_all_commons
    \/ Serve_get_one_common
    \/ Serve_create_common
    \/ Serve_create_common_from_csv
    \/ Serve_update_common_fields
    \/ Serve_change_common
    \/ Serve_delete_common
    \/ Finish

\* the accessor behind the generated routes
RouteSpec == Init /\ [][RouteNext]_vars

(***************************************************************************)
(* The schema reflector: schemas/generate.py, schemas/defaults.py,         *)
(* common/sqlalchemy_to_pydantic.py and common/schema.py.  Here model is   *)
(* the mapped model itself: for each column its primary_key, unique,       *)
(* nullable and default; req is the derivation asked for and the mapping   *)
(* validated against the derived schema, res the schema and the outcome.   *)
(***************************************************************************)
\* the columns of the mapped models tried (mapper.attrs, in order)
ColumnNames == <<"id", "sku", "name">>

\* a column: primary_key, unique (the column's own flag), nullable, and
\* whether it has a default; a primary-key column is not nullable
ColumnKinds ==
    {k \in [primary_key : BOOLEAN, unique : BOOLEAN, nullable : BOOLEAN,
            has_default : BOOLEAN] : k.primary_key => ~k.nullable}

\* the mapped models tried: every model has a primary key
MappedModels ==
    {t \in [Range(ColumnNames) -> ColumnKinds] :
        \E c \in Range(ColumnNames) : t[c].primary_key}

\* a schema field as create_model gets it, (python_type, default): the type
\* is Optional or not, the field is required when its default is '...'
Field(optional, required) == [optional |-> optional, required |-> required]

\* (mutant) every column that is not nullable and has no default stays
\* required
get_model_identity_schema_strict(table, include_unique) ==
    [c \in {c \in DOMAIN table :
              ~(~table[c].primary_key /\ (include_unique /\ ~table[c].unique))} |->
        Field(~table[c].primary_key,
              ~table[c].has_default /\ ~table[c].nullable)]

\* get_model_identity_schema(model, include_unique=...): a column is skipped
\* when it is not a primary key and (include_unique and not unique)
get_model_identity_schema(table, include_unique) ==
    [c \in {c \in DOMAIN table :
              ~(~table[c].primary_key /\ (include_unique /\ ~table[c].unique))} |->
        Field(~table[c].primary_key,
              table[c].primary_key /\ ~table[c].has_default /\ ~table[c].nullable)]

\* (mutant) make_all_optional widens the type but keeps '...' as default
generate_pydantic_schema_from_model_required(table, exclude, only_primary_keys, only_unique, make_all_optional) ==
    [c \in {c \in DOMAIN table :
              /\ c \notin exclude
              /\ only_primary_keys => table[c].primary_key
              /\ only_unique => table[c].unique} |->
        Field(table[c].nullable \/ make_all_optional,
              ~table[c].has_default /\ ~table[c].nullable)]

\* generate_pydantic_schema_from_model(model, exclude=..., only_primary_keys=...,
\* only_unique=..., make_all_optional=...)
generate_pydantic_schema_from_model(table, exclude, only_primary_keys, only_unique, make_all_optional) ==
    [c \in {c \in DOMAIN table :
              /\ c \notin exclude
              /\ only_primary_keys => table[c].primary_key
              /\ only_unique => table[c].unique} |->
        Field(table[c].nullable \/ make_all_optional,
              ~table[c].has_default /\ ~table[c].nullable /\ ~make_all_optional)]

\* schemas/defaults.py
RequestSchema(table) ==
    generate_pydantic_schema_from_model(table, {"id"}, FALSE, FALSE, FALSE)

PatchSchema(table) ==
    generate_pydantic_schema_from_model(table, {"id"}, FALSE, FALSE, TRUE)

IdentitySchema(table) ==
    generate_pydantic_schema_from_model(table, {}, TRUE, FALSE, FALSE)

\* the AllOptional metaclass on a base schema: every field's annotation
\* becomes '| None' and its default None
AllOptional(base) == [c \in DOMAIN base |-> Field(TRUE, FALSE)]

\* Validating a mapping against a schema.  The mapping is given by the
\* fields it has (each with a well-typed value); it is refused when a
\* required field is missing, else the instance has the mapping's value for
\* a present field and None for the others
model_validate(schema, present) ==
    IF \E c \in DOMAIN schema : schema[c].required /\ c \notin present
    THEN [valid |-> FALSE, instance |-> <<>>]
    ELSE [valid |-> TRUE,
          instance |-> [c \in DOMAIN schema |->
                          IF c \in present THEN "value" ELSE None]]

\* the schema derived, the validation of the mapping and, when it is
\* accepted, model_dump(exclude_none=True)
Derived(schema, present) ==
    LET v == model_validate(schema, present)
    IN  [schema |-> schema, valid |-> v.valid, instance |-> v.instance,
         dump |-> IF v.valid THEN exclude_none(v.instance) ELSE <<>>]

\* no derivation asked for yet: each model is derived from and validated
\* against once
NoDerivation ==
    [op |-> "none", include_unique |-> FALSE, exclude |-> {},
     only_primary_keys |-> FALSE, only_unique |-> FALSE,
     make_all_optional |-> FALSE, present |-> {}]

SchemaInit ==
    /\ model \in MappedModels
    /\ store = <<>>
    /\ next_id = 1
    /\ pre = <<>>
    /\ req = NoDerivation
    /\ res = Derived(<<>>, {})

Derive_get_model_identity_schema ==
    /\ req = NoDerivation
    /\ \E include_unique \in BOOLEAN, present \in SUBSET Range(ColumnNames) :
        /\ req' = [NoDerivation EXCEPT !.op = "get_model_identity_schema",
                                       !.include_unique = include_unique,
                                       !.present = present]
        /\ res' = Derived(get_model_identity_schema(model, include_unique), present)
    /\ UNCHANGED <<model, store, next_id, pre>>

Derive_generate_pydantic_schema_from_model ==
    /\ req = NoDerivation
    /\ \E exclude \in {{}, {"id"}}, only_primary_keys \in BOOLEAN,
          only_unique \in BOOLEAN, make_all_optional \in BOOLEAN,
          present \in SUBSET Range(ColumnNames) :
        /\ req' = [NoDerivation EXCEPT !.op = "generate_pydantic_schema_from_model",
                                       !.exclude = exclude,
                                       !.only_primary_keys = only_primary_keys,
                                       !.only_unique = only_unique,
                                       !.make_all_optional = make_all_optional,
                                       !.present = present]
        /\ res' = Derived(generate_pydantic_schema_from_model(
                              model, exclude, only_primary_keys, only_unique,
                              make_all_optional), present)
    /\ UNCHANGED <<model, store, next_id, pre>>

\* the patch schema of the reference pack: AllOptional over the base schema
Derive_AllOptional ==
    /\ req = NoDerivation
    /\ \E present \in SUBSET Range(ColumnNames) :
        /\ req' = [NoDerivation EXCEPT !.op = "AllOptional", !.exclude = {"id"},
                                       !.present = present]
        /\ res' = Derived(AllOptional(RequestSchema(model)), present)
    /\ UNCHANGED <<model, store, next_id, pre>>

SchemaNext ==
    \/ Derive_get_model_identity_schema
    \/ Derive_generate_pydantic_schema_from_model
    \/ Derive_AllOptional

SchemaSpec == SchemaInit /\ [][SchemaNext]_vars

(***************************************************************************)
(* Two concurrent requests on one table.  Each request runs its handler in *)
(* a session of its own: the statement first, the commit later, the other  *)
(* request's steps in between.  The store is PostgreSQL at its default     *)
(* isolation (read committed): a statement sees the committed rows, and    *)
(* waits while a row it matches, or a key it would write, is held by the   *)
(* other session's uncommitted statement.  Here store is the committed     *)
(* table, req and res map each request to its input and its progress, and  *)
(* pre is the log of the steps taken.                                      *)
(***************************************************************************)
Requests == {1, 2}

\* the tables the requests start on: the rows of a batch, keys unique
InitialStores(m) ==
    {NewRows(b, 1) : b \in {b \in Batches(m) : SatisfiesUnique(m, NewRows(b, 1))}}

\* the requests tried: DELETE, PUT and PATCH by identifier
ConcurrentRequests(m) ==
    {[NoReq EXCEPT !.op = "DeleteRoute", !.filter_dict = f] :
        f \in IdentityFilters}
    \cup {[NoReq EXCEPT !.op = "UpdateRoute", !.filter_dict = f, !.payload = d] :
            f \in IdentityFilters, d \in RowDicts(m)}
    \cup {[NoReq EXCEPT !.op = "PatchRoute", !.filter_dict = f, !.payload = d] :
            f \in IdentityFilters, d \in PatchPayloads(m)}

\* the handler of a request on the table s
Handle(m, r, s, n) ==
    CASE r.op = "DeleteRoute" -> DeleteRoute(s, n, r.filter_dict)
      [] r.op = "UpdateRoute" -> UpdateRoute(m, s, n, r.payload, r.filter_dict)
      [] r.op = "PatchRoute" -> PatchRoute(m, s, n, r.payload, r.filter_dict)

\* the identifiers of the rows of s
IdsOf(s) == {s[k]["id"] : k \in 1..Len(s)}

\* the identifiers of the rows of s the request's statement matches
Matched(r, s) ==
    {s[k]["id"] : k \in {k \in 1..Len(s) :
                           generate_where_cause(s[k], exclude_none(r.filter_dict))}}

\* a session that has not started
NoSession ==
    [pc |-> "ready", answer |-> NoRes, locked |-> {}, written |-> <<>>]

\* the committed table once a session's statement is committed: the rows it
\* holds are replaced by the versions it wrote, or gone if it deleted them
Apply(s, session) ==
    LET kept(row) ==
            \/ row["id"] \notin session.locked
            \/ \E k \in 1..Len(session.written) :
                    session.written[k]["id"] = row["id"]
        version(row) ==
            IF row["id"] \in session.locked
            THEN session.written[CHOOSE k \in 1..Len(session.written) :
                                    session.written[k]["id"] = row["id"]]
            ELSE row
        rest == SelectSeq(s, kept)
    IN  [k \in 1..Len(rest) |-> version(rest[k])]

\* the statement of request i has to wait: the other session holds a row
\* the statement matches, or the statement's outcome depends on whether the
\* other session's rows are committed (a key it writes is held)
Blocked(i) ==
    \E j \in Requests \ {i} :
        /\ res[j].pc = "executed"
        /\ \/ Matched(req[i], store) \cap res[j].locked # {}
           \/ Handle(model, req[i], store, next_id).status
                # Handle(model, req[i], Apply(store, res[j]), next_id).status

ConcInit ==
    /\ model \in Models
    /\ store \in InitialStores(model)
    /\ next_id = Len(store) + 1
    /\ req \in [Requests -> ConcurrentRequests(model)]
    /\ req[1].op = "DeleteRoute"
    /\ res = [i \in Requests |-> NoSession]
    /\ pre = <<>>

\* request i runs its handler up to the commit: the statement executes on
\* the committed table; a fault ends the request, its session rolled back
Execute(i) ==
    /\ res[i].pc = "ready"
    /\ ~Blocked(i)
    /\ LET h == Handle(model, req[i], store, next_id)
           locked == IF h.commits > 0 THEN Matched(req[i], store) ELSE {}
       IN  /\ res' = [res EXCEPT ![i] =
                        [pc |-> IF h.commits > 0 THEN "executed" ELSE "done",
                         answer |-> Answered(h),
                         locked |-> locked,
                         written |-> SelectSeq(h.store,
                                        LAMBDA row : row["id"] \in locked)]]
           /\ pre' = Append(pre, [request |-> i, step |-> "execute",
                                  rows |-> locked, seen |-> IdsOf(store)])
    /\ UNCHANGED <<model, store, next_id, req>>

\* session.commit() of request i
Commit(i) ==
    /\ res[i].pc = "executed"
    /\ store' = Apply(store, res[i])
    /\ res' = [res EXCEPT ![i].pc = "done"]
    /\ pre' = Append(pre, [request |-> i, step |-> "commit",
                           rows |-> res[i].locked, seen |-> IdsOf(store)])
    /\ UNCHANGED <<model, next_id, req>>

ConcNext == \E i \in Requests : Execute(i) \/ Commit(i)

ConcSpec == ConcInit /\ [][ConcNext]_vars

(***************************************************************************)
(* Two concurrent merge-mode imports on the composite-key table.  Each     *)
(* request runs bulk_merge_create in a session of its own and commits      *)
(* after it: the existence query and the loop over the rows found, then    *)
(* the flush, then the commit, with the other request's steps in between.  *)
(* The query sees the committed rows only; the flush (taken as one step)   *)
(* waits while the other session holds, uncommitted, a key it inserts or a *)
(* row it updates, and fails as a whole when a key it inserts is           *)
(* committed.  Here req maps each request to its batch, res to its         *)
(* progress, and pre is the log of the steps taken.                        *)
(***************************************************************************)
\* the tables the imports start on: empty, or one row
SmallStores(m) == {NewRows(b, 1) : b \in {<<>>} \cup {<<d>> : d \in RowDicts(m)}}

\* the batches of request i: its rows carry a name of its own and have
\* pairwise distinct keys
MergeBatches(m, i) ==
    {b \in Batches(m) :
        /\ \A k \in 1..Len(b) : b[k]["name"] = (IF i = 1 THEN "X" ELSE None)
        /\ ~ProposedTwice(unique_constr_names(m), b)}

\* a session that has not started
NoMerge ==
    [pc |-> "ready", outcome |-> "ok", to_update |-> <<>>, to_insert |-> <<>>,
     inserted |-> <<>>]

\* (mutant) the existence query finds no row
existing_rows_none(names, s, dtd) == <<>>

\* existing_rows: the committed rows whose key tuple is in data_tuple_dict
existing_rows(names, s, dtd) ==
    SelectSeq(s, LAMBDA row : HasKey(names, dtd, KeyOf(names, row)))

\* the loop over existing_rows: for each row found its identifier and the
\* attributes that setattr changed (the flush writes only those)
Changed(names, found, dtd) ==
    [k \in 1..Len(found) |->
        LET d == Lookup(names, dtd, KeyOf(names, found[k]))
        IN  [id |-> found[k]["id"],
             set |-> Restrict(d, {c \in DOMAIN d : d[c] # found[k][c]})]]

\* the entries left in data_tuple_dict after the loop
Remaining(names, found, dtd) ==
    SelectSeq(dtd, LAMBDA d : ~HasKey(names, found, KeyOf(names, d)))

\* the keys a session inserts, and the identifiers of the rows it writes
InsertKeys(names, session) ==
    {KeyOf(names, session.to_insert[k]) : k \in 1..Len(session.to_insert)}

WrittenIds(session) ==
    {session.to_update[k].id :
        k \in {k \in 1..Len(session.to_update) :
                DOMAIN session.to_update[k].set # {}}}

\* the flush of request i has to wait for the other session's commit
Waits(i) ==
    LET names == unique_constr_names(model)
    IN  \E j \in Requests \ {i} :
            /\ res[j].pc = "flushed"
            /\ \/ InsertKeys(names, res[j]) \cap InsertKeys(names, res[i]) # {}
               \/ WrittenIds(res[j]) \cap WrittenIds(res[i]) # {}

\* the committed table with a session's changes
Merged(s, session) ==
    [k \in 1..Len(s) |->
        IF \E u \in 1..Len(session.to_update) : session.to_update[u].id = s[k]["id"]
        THEN session.to_update[CHOOSE u \in 1..Len(session.to_update) :
                                    session.to_update[u].id = s[k]["id"]].set @@ s[k]
        ELSE s[k]]
    \o session.inserted

MergeInit ==
    /\ model = "stock"
    /\ store \in SmallStores(model)
    /\ next_id = Len(store) + 1
    /\ \E b1 \in MergeBatches(model, 1), b2 \in MergeBatches(model, 2) :
            req = [i \in Requests |-> IF i = 1 THEN b1 ELSE b2]
    /\ res = [i \in Requests |-> NoMerge]
    /\ pre = <<[request |-> 0, step |-> "start", seen |-> store]>>

\* await session.execute(exist_stmt), and the loop over the rows found
Query(i) ==
    /\ res[i].pc = "ready"
    /\ LET names == unique_constr_names(model)
           dtd == data_tuple_dict(names, req[i])
           found == existing_rows(names, store, dtd)
       IN  res' = [res EXCEPT ![i] =
                     [NoMerge EXCEPT !.pc = "queried",
                                     !.to_update = Changed(names, found, dtd),
                                     !.to_insert = Remaining(names, found, dtd)]]
    /\ pre' = Append(pre, [request |-> i, step |-> "query", seen |-> store])
    /\ UNCHANGED <<model, store, next_id, req>>

\* session.add_all(to_insert); await session.flush(...): a key that is
\* committed by now fails the flush, and with it the request
Flush(i) ==
    /\ res[i].pc = "queried"
    /\ ~Waits(i)
    /\ LET names == unique_constr_names(model)
           conflict == \E k \in 1..Len(res[i].to_insert) :
                          HasKey(names, store, KeyOf(names, res[i].to_insert[k]))
       IN  IF conflict
           THEN /\ res' = [res EXCEPT ![i].pc = "done",
                                      ![i].outcome = "IntegrityError"]
                /\ UNCHANGED next_id
           ELSE /\ res' = [res EXCEPT ![i].pc = "flushed",
                                      ![i].inserted = NewRows(res[i].to_insert, next_id)]
                /\ next_id' = next_id + Len(res[i].to_insert)
    /\ pre' = Append(pre, [request |-> i, step |-> "flush", seen |-> store])
    /\ UNCHANGED <<model, store, req>>

\* await session.commit() of the caller
CommitMerge(i) ==
    /\ res[i].pc = "flushed"
    /\ store' = Merged(store, res[i])
    /\ res' = [res EXCEPT ![i].pc = "done"]
    /\ pre' = Append(pre, [request |-> i, step |-> "commit", seen |-> store])
    /\ UNCHANGED <<model, next_id, req>>

MergeNext == \E i \in Requests : Query(i) \/ Flush(i) \/ CommitMerge(i)

MergeSpec == MergeInit /\ [][MergeNext]_vars

(***************************************************************************)
(* The wrapper around any handler, the handler returning or raising.  Here *)
(* req is the declared kinds and what the handler did, res the answer.     *)
(***************************************************************************)
\* the driver messages tried: the store's own, one without a colon, one
\* with two colons and a blank at its end
Messages ==
    {UniqueViolation,
     <<"connection was closed">>,
     <<"ERROR", ":", " ", "Key (sku)=(A1)", ":", " ", "already exists", " ">>}

\* the declarations tried: any kinds in any order
Declarations == SeqsUpTo(DataBaseExceptions, 2)

\* what func did: it returned, raised a typed fault (with the code it was
\* built with, if any), raised a driver error with any messages, a fault of
\* the library (no orig), or something else
Raised ==
    {Body(o, 0, NoDetail, <<>>, <<>>, 1, <<>>) :
        o \in {"ok", "Exception", "NoResultFound", "MultipleResultsFound"}}
    \cup {Body(o, c, NoDetail, <<>>, <<>>, 1, <<>>) :
            o \in DataBaseExceptions, c \in {0, 409}}
    \cup {[Body(o, 0, NoDetail, <<>>, <<>>, 1, <<>>) EXCEPT !.orig.args = a] :
            o \in {"IntegrityError", "ProgrammingError"},
            a \in SeqsUpTo(Messages, MaxArgs)}

NoWrapped == [op |-> "none", exception |-> <<>>, func |-> OneOf(Raised)]

WrapperInit ==
    /\ model = "note"
    /\ store = <<>>
    /\ next_id = 1
    /\ pre = <<>>
    /\ req = NoWrapped
    /\ res = NoRes

Wrap ==
    /\ req.op = "none"
    /\ \E exception \in Declarations, func \in Raised :
        /\ req' = [op |-> "db_exception_wrapper", exception |-> exception,
                   func |-> func]
        /\ res' = Answered(db_exception_wrapper(exception, func))
    /\ UNCHANGED <<model, store, next_id, pre>>

WrapperNext == Wrap

WrapperSpec == WrapperInit /\ [][WrapperNext]_vars

(***************************************************************************)
(* bulk_merge_create on every table, the ones without a column outside the *)
(* constraint included.                                                    *)
(***************************************************************************)
TableInit ==
    /\ model \in Tables
    /\ store = <<>>
    /\ next_id = 1
    /\ pre = <<>>
    /\ req = NoReq
    /\ res = NoRes

TableNext == BulkMergeCreate \/ Finish

TableSpec == TableInit /\ [][TableNext]_vars

(***************************************************************************)
(* The claims.  The expected results are restated here on their own, from  *)
(* the arguments in req and the store before the call in pre.              *)
(***************************************************************************)
\* every equality of filter F holds of the row
Satisfies(row, F) == \A c \in DOMAIN F : row[c] = F[c]

\* the rows of s that satisfy F, in the order of s
RECURSIVE Those(_, _)
Those(s, F) ==
    IF s = <<>> THEN <<>>
    ELSE (IF Satisfies(Head(s), F) THEN <<Head(s)>> ELSE <<>>) \o Those(Tail(s), F)

\* s without its first k elements, and the first k elements of s
Drop(s, k) == IF k >= Len(s) THEN <<>> ELSE [i \in 1..(Len(s) - k) |-> s[i + k]]
Take(s, k) == IF k >= Len(s) THEN s ELSE [i \in 1..k |-> s[i]]

\* the unique-key tuple of a row or row dictionary of the model
ClaimKey(d) == IF model = "stock" THEN <<d.sku, d.lot>> ELSE <<d.sku>>

\* the positions of the rows of s with the key
StoredWith(s, key) == {k \in 1..Len(s) : ClaimKey(s[k]) = key}

\* the last row of the batch with the key
LastWith(batch, key) ==
    batch[CHOOSE i \in 1..Len(batch) :
            /\ ClaimKey(batch[i]) = key
            /\ \A j \in (i + 1)..Len(batch) : ClaimKey(batch[j]) # key]

\* d without the identifier
Fields(d) == [c \in DOMAIN d \ {"id"} |-> d[c]]

\* a merge-mode bulk_merge_create has just run
IsMerge == req.op = "bulk_merge_create" /\ ~req.is_simple_insert

\* C1: in merge mode on a model with a uniqueness constraint of one or of
\* several columns, a batch in which two rows share a unique-key tuple is
\* accepted, and afterwards exactly one stored row has that key and carries
\* the field values of the last such batch row.
C1_DedupLastWins ==
    (IsMerge /\ model \in {"item", "stock"}) =>
        \A i, j \in 1..Len(req.obj_list) :
            (i < j /\ ClaimKey(req.obj_list[i]) = ClaimKey(req.obj_list[j])) =>
                LET key == ClaimKey(req.obj_list[i])
                IN  /\ res.outcome = "ok"
                    /\ Cardinality(StoredWith(store, key)) = 1
                    /\ \A k \in StoredWith(store, key) :
                          Fields(store[k]) = LastWith(req.obj_list, key)

\* C2: on the composite-key model, submitting the same batch a second time
\* in merge mode succeeds and leaves the store exactly as the first run
\* left it: the same rows, with the same field values.
C2_Idempotent ==
    (req.op = "bulk_merge_create_again" /\ ~req.is_simple_insert /\ model = "stock") =>
        res.outcome = "ok" /\ store = pre

C2_Witness ==
    /\ req.op = "bulk_merge_create_again" /\ ~req.is_simple_insert /\ model = "stock"
    /\ Len(req.obj_list) = 2
    /\ ClaimKey(req.obj_list[1]) # ClaimKey(req.obj_list[2])
    /\ Len(store) = 2

\* C3: on the model whose uniqueness constraint is the one column sku, a
\* merge-mode bulk_merge_create inserts every batch row whose sku is not
\* stored yet and overwrites, in the stored row with the same sku, every
\* other column with the incoming value, adding no row for it.
C3_SingleColumnUpsert ==
    (IsMerge /\ model = "item") =>
        /\ \A x \in 1..Len(req.obj_list) :
              LET key == ClaimKey(req.obj_list[x])
                  incoming == LastWith(req.obj_list, key)
              IN  IF StoredWith(pre, key) = {}
                  THEN \E k \in 1..Len(store) : Fields(store[k]) = incoming
                  ELSE \A k \in StoredWith(pre, key) :
                          k <= Len(store) /\ store[k] = incoming @@ pre[k]
        /\ Len(store) = Len(pre) + Cardinality(
              {ClaimKey(req.obj_list[x]) : x \in 1..Len(req.obj_list)}
                  \ {ClaimKey(pre[k]) : k \in 1..Len(pre)})

\* the value the claim gives column c of a row matching the filter
ClaimedValue(row, c) ==
    IF c \in DOMAIN req.update_dict
       /\ (~req.is_patch \/ req.update_dict[c] # None)
    THEN req.update_dict[c]
    ELSE row[c]

\* the store the claim describes after update(F, C)
ClaimedUpdate ==
    [i \in 1..Len(pre) |->
        IF Satisfies(pre[i], req.filter_dict)
        THEN [c \in DOMAIN pre[i] |-> ClaimedValue(pre[i], c)]
        ELSE pre[i]]

\* no two rows of s have the same unique-key tuple
NoDuplicateKey(s) ==
    model = "note" \/
    \A i, j \in 1..Len(s) : i # j => ClaimKey(s[i]) # ClaimKey(s[j])

\* C4 as claimed: update sets, on every row matching F, the non-absent
\* columns of C (every column named in C when is_patch is false), keeps
\* the others and leaves the rows not matching F unchanged.
C4_UpdateAsClaimed == req.op = "update" => store = ClaimedUpdate

\* C4 as amended: the same, provided the rows so changed do not break the
\* table's uniqueness constraint; when they would, update raises
\* IntegrityError and no row changes.
C4_UpdateEffect ==
    req.op = "update" =>
        IF NoDuplicateKey(ClaimedUpdate)
        THEN store = ClaimedUpdate /\ res.outcome # "IntegrityError"
        ELSE store = pre /\ res.outcome = "IntegrityError"

C4_Witness ==
    /\ req.op = "update" /\ req.is_patch
    /\ DOMAIN req.update_dict = {"sku", "name"}
    /\ req.update_dict["name"] = None
    /\ \E i \in 1..Len(pre) :
          /\ Satisfies(pre[i], req.filter_dict)
          /\ pre[i]["name"] # None
          /\ store[i]["name"] = pre[i]["name"]
          /\ store[i]["sku"] = req.update_dict["sku"]
          /\ store[i]["sku"] # pre[i]["sku"]
    /\ \E i \in 1..Len(pre) : ~Satisfies(pre[i], req.filter_dict)

\* no stored row matched the filter of the call
NoMatch == \A i \in 1..Len(pre) : ~Satisfies(pre[i], req.filter_dict)

\* the update has at least one value to set
HasValues ==
    \E c \in DOMAIN req.update_dict : ~req.is_patch \/ req.update_dict[c] # None

\* what the claim says of a call whose filter may match no row
ZeroMatchRule ==
    /\ NoMatch =>
          /\ res.outcome = (IF req.raise_on_not_affected
                            THEN "NoResultFoundException" ELSE "ok")
          /\ store = pre
    /\ ~NoMatch => res.outcome # "NoResultFoundException"

\* C5 as claimed: update or delete with a filter matching no row raises
\* NoResultFoundException when raise_on_not_affected is true and returns
\* normally when it is false, the store unchanged; when a row matches, no
\* NoResultFoundException is raised.
C5_ZeroMatchAsClaimed == req.op \in {"update", "delete"} => ZeroMatchRule

\* C5 as amended: the same for delete, and for update whenever it has at
\* least one value to set; an update with nothing to set fails with the
\* store's statement error whatever the filter and the flag, the store
\* unchanged.
C5_ZeroMatch ==
    /\ req.op = "delete" => ZeroMatchRule
    /\ req.op = "update" =>
          IF HasValues THEN ZeroMatchRule
          ELSE res.outcome = "ProgrammingError" /\ store = pre

C5_Witness ==
    /\ req.op = "delete"
    /\ NoMatch
    /\ pre # <<>>
    /\ req.raise_on_not_affected
    /\ res.outcome = "NoResultFoundException"

\* C6: get_one returns the matching row when exactly one stored row
\* satisfies the filter, fails with the not-found fault when none does and
\* with the distinct too-many-rows fault when several do, and never
\* changes the store.
C6_GetOne ==
    req.op = "get_one" =>
        LET matching == Those(pre, req.filter_dict)
        IN  /\ store = pre
            /\ Len(matching) = 1 => res.outcome = "ok" /\ res.rows = matching
            /\ Len(matching) = 0 => res.outcome = "NoResultFound" /\ res.rows = <<>>
            /\ Len(matching) > 1 =>
                  res.outcome = "MultipleResultsFound" /\ res.rows = <<>>

C6_Witness ==
    /\ req.op = "get_one"
    /\ Len(Those(pre, req.filter_dict)) > 1
    /\ res.outcome = "MultipleResultsFound"

IdentityHandlers ==
    {"GetOneRoute", "UpdateRoute", "PatchRoute", "DeleteRoute",
     "get_one_common", "change_common", "update_common_fields", "delete_common"}

GetOneHandlers == {"GetOneRoute", "get_one_common"}

PatchHandlers == {"PatchRoute", "update_common_fields"}

\* the handlers of the default route classes, and the method each serves
DefaultHandlers ==
    {"GetAllRoute", "GetOneRoute", "CreateRoute", "UpdateRoute", "PatchRoute",
     "DeleteRoute"}

CommonHandlers ==
    {"get_all_commons", "get_one_common", "create_common",
     "create_common_from_csv", "change_common", "update_common_fields",
     "delete_common"}

MethodOf(op) ==
    CASE op \in {"GetAllRoute", "get_all_commons"} -> "get_all"
      [] op \in {"GetOneRoute", "get_one_common"} -> "get_one"
      [] op = "CreateRoute" -> "create"
      [] op = "create_common" -> "post"
      [] op = "create_common_from_csv" -> "csv"
      [] op = "UpdateRoute" -> "update"
      [] op = "change_common" -> "put"
      [] op \in {"PatchRoute", "update_common_fields"} -> "patch"
      [] op \in {"DeleteRoute", "delete_common"} -> "delete"

\* the router of the request lets the requested operation through: a
\* default router lists it or has no list, a reference router allows it
\* (no list or an empty one allows all) and does not exclude it
Permitted(r) ==
    IF r.op \in DefaultHandlers
    THEN r.allowed_methods.is_none \/ MethodOf(r.op) \in r.allowed_methods.methods
    ELSE /\ \/ r.allowed_methods.is_none
            \/ r.allowed_methods.methods = {}
            \/ MethodOf(r.op) \in r.allowed_methods.methods
         /\ MethodOf(r.op) \notin r.excluded_methods

\* the handler ran its built-in body: its method is allowed on the router
\* and no custom method replaces it
BuiltIn == Permitted(req) /\ ~req.custom.given

\* the payload names at least one value
NonEmptyPayload == \E c \in DOMAIN req.payload : req.payload[c] # None

\* C8: an identity-addressed handler (get-one, PUT, PATCH with a non-empty
\* payload, DELETE) answers 404 whenever no stored row matches the identity
\* filter; the miss is the store's no-result fault in get-one and the
\* library's NoResultFoundException in the others, and nothing is committed.
C8_MissIs404 ==
    (/\ req.op \in IdentityHandlers
     /\ BuiltIn
     /\ req.op \in PatchHandlers => NonEmptyPayload
     /\ NoMatch)
    => /\ res.outcome = "HTTPException"
       /\ res.status = 404
       /\ res.raised = (IF req.op \in GetOneHandlers THEN "NoResultFound"
                        ELSE "NoResultFoundException")
       /\ res.commits = 0
       /\ store = pre

C8_Witness ==
    /\ req.op = "PatchRoute"
    /\ NonEmptyPayload
    /\ pre # <<>>
    /\ NoMatch
    /\ res.raised = "NoResultFoundException"
    /\ res.status = 404

\* the kind of a fault: the store's native fault and the library's typed
\* fault of the same name are one kind
KindOf(fault) ==
    CASE fault \in {"NoResultFound", "NoResultFoundException"} -> "NotFound"
      [] fault \in {"IntegrityError", "IntegrityErrorException"} -> "IntegrityViolation"
      [] OTHER -> fault

\* the kinds the handler's wrapper declared
DeclaredKinds == {KindOf(res.exception[i]) : i \in 1..Len(res.exception)}

\* a fault was raised inside a wrapped handler
FaultInWrapper == res.wrapped /\ res.raised \notin {"ok", "HTTPException"}

\* the fault left the wrapper as it was raised
Untranslated == res.outcome = res.raised /\ res.status = 500

\* C9 as stated: a fault raised inside a wrapped handler becomes an HTTP
\* error only if its kind is among the kinds the wrapper declared; a fault
\* of an undeclared kind, native or typed, leaves the wrapper untranslated.
C9_OnlyDeclaredAsClaimed ==
    (FaultInWrapper /\ KindOf(res.raised) \notin DeclaredKinds) => Untranslated

\* the code a typed fault carries: the one it was built with, else the
\* default of its kind
TypedCode ==
    IF req.custom.given /\ req.custom.code # 0 THEN req.custom.code
    ELSE IF KindOf(res.raised) = "NotFound" THEN 404 ELSE 400

\* C9 as amended: a native store fault raised inside a wrapped handler
\* becomes an HTTP error, with its kind's code, only if its kind is among
\* the kinds the wrapper declared, and leaves the wrapper untranslated
\* otherwise; one of the library's typed faults always becomes an HTTP error
\* with the code it carries, declared or not.  In every case nothing is
\* committed.
C9_Translation ==
    FaultInWrapper =>
        /\ res.commits = 0 /\ store = pre
        /\ CASE res.raised \in {"NoResultFoundException", "IntegrityErrorException"} ->
                    res.outcome = "HTTPException" /\ res.status = TypedCode
             [] res.raised \in {"NoResultFound", "IntegrityError"}
                /\ KindOf(res.raised) \in DeclaredKinds ->
                    /\ res.outcome = "HTTPException"
                    /\ res.status = (IF res.raised = "NoResultFound" THEN 404 ELSE 400)
             [] OTHER -> Untranslated

\* an undeclared native fault leaves a wrapper that declares some kind
C9_Witness ==
    /\ req.op = "get_one_common"
    /\ res.wrapped
    /\ res.raised = "IntegrityError"
    /\ DeclaredKinds = {"NotFound"}
    /\ Untranslated

\* C10: in every create handler (CreateRoute, create_common) an integrity
\* violation raised by the store while creating the row is answered with
\* 400, and nothing is committed.
C10_CreateIntegrity400 ==
    (req.op \in {"CreateRoute", "create_common"} /\ BuiltIn
     /\ res.raised = "IntegrityError")
    => /\ res.status = 400
       /\ res.commits = 0
       /\ store = pre

\* a stored row matches the identity filter
SomeMatch == \E i \in 1..Len(pre) : Satisfies(pre[i], req.filter_dict)

\* C11: a PATCH whose payload has no non-absent field is answered with 400
\* and the message about missing input data; neither CRUDBase.update nor
\* session.commit is called, and the store is unchanged.
C11_EmptyPatch400 ==
    (req.op \in PatchHandlers /\ BuiltIn /\ ~NonEmptyPayload)
    => /\ res.outcome = "HTTPException"
       /\ res.status = 400
       /\ res.detail.text = <<"There are no info in the input data">>
       /\ res.calls = <<>>
       /\ store = pre

C11_Witness ==
    /\ req.op = "PatchRoute"
    /\ ~NonEmptyPayload
    /\ SomeMatch
    /\ res.status = 400
    /\ res.raised = "IntegrityErrorException"

\* the CSV import ran on a router that allows it
CsvImport == req.op = "create_common_from_csv" /\ Permitted(req)

\* the fields of a CSV row that the base schema refuses
Refused(row) ==
    {c \in {"sku"} \cup (IF model = "stock" THEN {"lot"} ELSE {}) : row[c] = None}

\* the position of the first row of the file that fails validation, 0 if
\* every row validates
FirstBad ==
    IF \A i \in 1..Len(req.file) : Refused(req.file[i]) = {} THEN 0
    ELSE CHOOSE i \in 1..Len(req.file) :
            /\ Refused(req.file[i]) # {}
            /\ \A j \in 1..(i - 1) : Refused(req.file[j]) = {}

\* C12: in the CSV import the rows are validated in file order and the
\* first failing row aborts the import: the answer is 400 with that row and
\* its validation errors, no later row is examined, neither the hook,
\* bulk_merge_create nor commit is called, and the store is unchanged.
C12_FirstBadRowAborts ==
    (CsvImport /\ FirstBad # 0)
    => /\ res.outcome = "HTTPException"
       /\ res.status = 400
       /\ res.detail.row = req.file[FirstBad]
       /\ res.detail.errors = Refused(req.file[FirstBad])
       /\ res.examined = FirstBad
       /\ res.calls = <<>>
       /\ store = pre

C12_Witness ==
    /\ CsvImport
    /\ Len(req.file) = 2
    /\ FirstBad = 2
    /\ req.csv_preparer = "tail"
    /\ res.status = 400
    /\ res.examined = 2
    /\ store = pre

\* the built-in mutating handlers, and the accessor method each calls
MutatingHandlers ==
    {"CreateRoute", "UpdateRoute", "PatchRoute", "DeleteRoute", "create_common",
     "change_common", "update_common_fields", "delete_common",
     "create_common_from_csv"}

AccessorOf(op) ==
    CASE op \in {"CreateRoute", "create_common"} -> "create"
      [] op \in {"UpdateRoute", "PatchRoute", "change_common",
                 "update_common_fields"} -> "update"
      [] op \in {"DeleteRoute", "delete_common"} -> "delete"
      [] op = "create_common_from_csv" -> "bulk_merge_create"

\* C13: in every built-in mutating handler without a custom override,
\* session.commit is called exactly once per request that succeeds, as the
\* last call and after the accessor call; in every request where the
\* accessor, the hook or a pre-check raises, commit is never called.
C13_CommitOnce ==
    (req.op \in MutatingHandlers /\ BuiltIn)
    => IF res.raised = "ok"
       THEN /\ res.commits = 1
            /\ res.calls[Len(res.calls)] = "commit"
            /\ \E i \in 1..(Len(res.calls) - 1) : res.calls[i] = AccessorOf(req.op)
       ELSE /\ res.commits = 0
            /\ store = pre

C13_Witness ==
    /\ req.op = "change_common"
    /\ BuiltIn
    /\ SomeMatch
    /\ res.raised = "IntegrityError"
    /\ res.calls = <<"update">>
    /\ res.commits = 0

(***************************************************************************)
(* The derived schemas (under SchemaSpec).                                 *)
(***************************************************************************)
\* an identity/filter schema was derived: by get_model_identity_schema, or
\* by generate_pydantic_schema_from_model in primary-key or unique mode
IdentityDerived ==
    \/ req.op = "get_model_identity_schema"
    \/ /\ req.op = "generate_pydantic_schema_from_model"
       /\ req.only_primary_keys \/ req.only_unique
       /\ ~req.make_all_optional

\* the fields of the derived schema that the mapping has
PresentFields == req.present \cap DOMAIN res.schema

MustBePresent ==
    {c \in DOMAIN res.schema :
        /\ ~model[c].nullable
        /\ ~model[c].has_default
        /\ req.op = "get_model_identity_schema" => model[c].primary_key}

PrimaryKeys == {c \in Range(ColumnNames) : model[c].primary_key}

UniqueColumns == {c \in Range(ColumnNames) : model[c].unique}

\* C15: the identity schema has a field for a column if and only if the
\* column is a primary key when unique mode is off, and has no field for a
\* column that is neither primary key nor unique when unique mode is on,
\* both for get_model_identity_schema and for
\* generate_pydantic_schema_from_model.
C15_IdentityFields ==
    /\ req.op = "get_model_identity_schema" =>
          IF req.include_unique
          THEN DOMAIN res.schema \subseteq PrimaryKeys \cup UniqueColumns
          ELSE DOMAIN res.schema = PrimaryKeys
    /\ (req.op = "generate_pydantic_schema_from_model" /\ req.exclude = {}) =>
          /\ (req.only_primary_keys /\ ~req.only_unique) =>
                DOMAIN res.schema = PrimaryKeys
          /\ req.only_unique =>
                DOMAIN res.schema \subseteq PrimaryKeys \cup UniqueColumns

\* a patch schema was derived: make_all_optional without the identifier, or
\* the AllOptional metaclass over the base schema
PatchDerived ==
    \/ /\ req.op = "generate_pydantic_schema_from_model"
       /\ req.make_all_optional
       /\ req.exclude = {"id"}
    \/ req.op = "AllOptional"

\* C16: the patch schema accepts the empty mapping and yields an instance in
\* which every field is None, whatever the columns' nullability and
\* defaults; its dump without None values is the empty mapping.  The schema
\* has no identifier field.
C16_PatchAcceptsEmpty ==
    (PatchDerived /\ req.present = {})
    => /\ res.valid
       /\ "id" \notin DOMAIN res.schema
       /\ \A c \in DOMAIN res.schema : res.instance[c] = None
       /\ res.dump = <<>>

C16_Witness ==
    /\ req.op = "generate_pydantic_schema_from_model"
    /\ req.make_all_optional /\ req.exclude = {"id"}
    /\ ~req.only_primary_keys /\ ~req.only_unique
    /\ ~model["sku"].nullable /\ ~model["sku"].has_default
    /\ req.present = {}
    /\ res.valid
    /\ DOMAIN res.schema = {"sku", "name"}

\* the answer of the request's handler on a router that restricts nothing
Unrestricted(r, s, n) ==
    CASE r.op = "GetAllRoute" ->
            GetAllRoute(s, n, r.payload, r.offset, r.limit.n)
      [] r.op = "GetOneRoute" -> GetOneRoute(s, n, r.filter_dict)
      [] r.op = "CreateRoute" -> CreateRoute(model, s, n, r.payload)
      [] r.op = "UpdateRoute" -> UpdateRoute(model, s, n, r.payload, r.filter_dict)
      [] r.op = "PatchRoute" -> PatchRoute(model, s, n, r.payload, r.filter_dict)
      [] r.op = "DeleteRoute" -> DeleteRoute(s, n, r.filter_dict)
      [] r.op = "get_all_commons" ->
            get_all_commons(Method, r.custom, s, n, r.payload, r.offset, r.limit.n)
      [] r.op = "get_one_common" ->
            get_one_common(Method, r.custom, s, n, r.filter_dict)
      [] r.op = "create_common" ->
            create_common(Method, r.custom, model, s, n, r.payload)
      [] r.op = "create_common_from_csv" ->
            create_common_from_csv(Method, r.csv_preparer, model, s, n, r.file,
                                   r.mode)
      [] r.op = "change_common" ->
            change_common(Method, r.custom, model, s, n, r.payload, r.filter_dict)
      [] r.op = "update_common_fields" ->
            update_common_fields(Method, r.custom, model, s, n, r.payload,
                                 r.filter_dict)
      [] r.op = "delete_common" ->
            delete_common(Method, r.custom, s, n, r.filter_dict)

\* C17: whatever operations a router excludes or does not allow, a request
\* to one of them is refused without any accessor, hook or commit call and
\* leaves the store unchanged, and a request to any other operation is
\* answered, and changes the store, exactly as on a router that restricts
\* nothing; a default router given an empty allowed list serves no
\* operation.
C17_Exclusion ==
    [][(req'.op \in DefaultHandlers \cup CommonHandlers) =>
          IF Permitted(req')
          THEN \E h \in {Unrestricted(req', store, next_id)} :
                  /\ res' = Answered(h)
                  /\ store' = (IF res'.commits > 0 THEN h.store ELSE store)
          ELSE /\ res'.outcome = "HTTPException"
               /\ res'.status \in {400, 404, 405}
               /\ res'.calls = <<>>
               /\ store' = store]_vars

\* a delete excluded on the reference router, asked for a stored row
C17_Witness ==
    /\ req.op = "delete_common"
    /\ req.excluded_methods = {"delete"}
    /\ req.allowed_methods.is_none
    /\ SomeMatch
    /\ res.status = 400
    /\ res.calls = <<>>
    /\ store = pre

(***************************************************************************)
(* Concurrent requests (under ConcSpec).                                   *)
(***************************************************************************)
\* the positions in the log of the step of a request
StepsOf(i, step) ==
    {a \in 1..Len(pre) : pre[a].request = i /\ pre[a].step = step}

\* request i executed its UPDATE or DELETE statement
StatementRun(i) ==
    /\ StepsOf(i, "execute") # {}
    /\ \E k \in 1..Len(res[i].answer.calls) :
            res[i].answer.calls[k] \in {"update", "delete"}

\* C18: in every interleaving of two requests, when one request's delete of
\* a row is committed before the other's update or delete statement on that
\* row executes, the other request is answered 404 and commits nothing; and
\* an update or delete reports success only for a row that was in the
\* committed table when its statement executed and when it was committed.
C18_DeleteThenMiss ==
    \A i \in Requests :
        /\ \A j \in Requests \ {i} :
            \A a \in StepsOf(j, "commit"), b \in StepsOf(i, "execute") :
                (/\ req[j].op = "DeleteRoute"
                 /\ a < b
                 /\ req[i].filter_dict["id"] \in pre[a].rows
                 /\ StatementRun(i))
                => /\ res[i].answer.status = 404
                   /\ res[i].answer.commits = 0
                   /\ res[i].pc = "done"
                   /\ StepsOf(i, "commit") = {}
        /\ (StatementRun(i) /\ res[i].answer.status = 200) =>
                \A b \in StepsOf(i, "execute") \cup StepsOf(i, "commit") :
                    req[i].filter_dict["id"] \in pre[b].seen

\* the delete of a stored row was committed, then an update of that row
\* executed
C18_Witness ==
    /\ req[2].op = "UpdateRoute"
    /\ req[2].filter_dict = req[1].filter_dict
    /\ Len(pre) = 3
    /\ pre[2].request = 1 /\ pre[2].step = "commit"
    /\ req[1].filter_dict["id"] \in pre[2].rows
    /\ pre[3].request = 2 /\ pre[3].step = "execute"
    /\ res[2].answer.status = 404

(***************************************************************************)
(* The branches of bulk_merge_create.                                      *)
(***************************************************************************)
\* the unique-key tuples of the rows of s
KeysOf(s) == {ClaimKey(s[k]) : k \in 1..Len(s)}

\* C19: on the composite-key model a merge-mode bulk_merge_create succeeds
\* and leaves the store as the map-override of the batch: a stored row
\* whose key is in the batch stays in place with its identifier and has the
\* fields of the last batch row with that key; a stored row whose key is
\* not in the batch is unchanged; every batch key not stored before has
\* exactly one new row, built from the last batch row with that key; the
\* row count grows by the number of batch keys not stored before.
C19_MapOverride ==
    (IsMerge /\ model = "stock") =>
        /\ res.outcome = "ok"
        /\ Len(store) >= Len(pre)
        /\ \A k \in 1..Len(pre) :
              store[k] = IF ClaimKey(pre[k]) \in KeysOf(req.obj_list)
                         THEN LastWith(req.obj_list, ClaimKey(pre[k])) @@ pre[k]
                         ELSE pre[k]
        /\ \A key \in KeysOf(req.obj_list) \ KeysOf(pre) :
              /\ Cardinality(StoredWith(store, key)) = 1
              /\ \A k \in StoredWith(store, key) :
                    /\ k > Len(pre)
                    /\ Fields(store[k]) = LastWith(req.obj_list, key)
        /\ Len(store) = Len(pre)
              + Cardinality(KeysOf(req.obj_list) \ KeysOf(pre))

\* a batch of two rows on a table of one: the first with the stored key and
\* another name, the second with a new key
C19_Witness ==
    /\ IsMerge /\ model = "stock"
    /\ Len(pre) = 1 /\ Len(req.obj_list) = 2
    /\ ClaimKey(req.obj_list[1]) = ClaimKey(pre[1])
    /\ req.obj_list[1].name # pre[1].name
    /\ ClaimKey(req.obj_list[2]) # ClaimKey(pre[1])
    /\ Len(store) = 2
    /\ store[1].name = req.obj_list[1].name

\* the unique-key tuple of a row or dictionary by the table's constraint
ConstraintKey(d) == KeyOf(unique_constr_names(model), d)

\* the rows of the table followed by the batch have pairwise distinct keys
NoDuplicate(s, batch) ==
    LET all == [k \in 1..(Len(s) + Len(batch)) |->
                    IF k <= Len(s) THEN ConstraintKey(s[k])
                    ELSE ConstraintKey(batch[k - Len(s)])]
    IN  \A i, j \in 1..Len(all) : i # j => all[i] # all[j]

\* the call did what one plain INSERT of the whole batch does: every batch
\* row is appended as a new row and no stored row is touched, or, when that
\* would break the constraint, the statement fails and stores nothing
PlainlyInserted ==
    IF unique_constr_names(model) = <<>> \/ NoDuplicate(pre, req.obj_list)
    THEN /\ res.outcome = "ok"
         /\ Len(store) = Len(pre) + Len(req.obj_list)
         /\ \A k \in 1..Len(pre) : store[k] = pre[k]
         /\ \A x \in 1..Len(req.obj_list) :
                Fields(store[Len(pre) + x]) = req.obj_list[x]
    ELSE res.outcome = "IntegrityError" /\ store = pre

\* the columns of the constraint are all the columns but the identifier
ConstraintExhausts ==
    /\ unique_constr_names(model) # <<>>
    /\ Range(unique_constr_names(model)) = Columns(model) \ {"id"}

\* C20 as claimed: bulk_merge_create does one plain INSERT of the batch and
\* stops when is_simple_insert is set, when the model has no uniqueness
\* constraint, or when the constraint, of any number of columns, covers
\* every column but the identifier.
C20_PlainInsertAsClaimed ==
    (/\ req.op = "bulk_merge_create"
     /\ \/ req.is_simple_insert
        \/ unique_constr_names(model) = <<>>
        \/ ConstraintExhausts)
    => PlainlyInserted

\* C20 (amended): bulk_merge_create does one plain INSERT of the batch and
\* stops when is_simple_insert is set, when the model has no uniqueness
\* constraint, or when the constraint is one column and that column is the
\* model's only column but the identifier.
C20_PlainInsert ==
    (/\ req.op = "bulk_merge_create"
     /\ \/ req.is_simple_insert
        \/ unique_constr_names(model) = <<>>
        \/ ConstraintExhausts /\ Len(unique_constr_names(model)) = 1)
    => PlainlyInserted

\* merge mode on the table whose one constrained column is its only column:
\* a batch row with a stored key is refused, not merged
C20_Witness ==
    /\ IsMerge /\ model = "tag"
    /\ Len(pre) = 1 /\ Len(req.obj_list) = 1
    /\ req.obj_list[1].sku = pre[1].sku
    /\ res.outcome = "IntegrityError"
    /\ store = pre

(***************************************************************************)
(* The wrapper's translation of the store's faults (under WrapperSpec).    *)
(***************************************************************************)
\* func raised a generic statement or request error of the store
GenericFault ==
    req.op = "db_exception_wrapper" /\ req.func.outcome \in StoreErrors

\* the declared kinds, by position, whose native type is the fault's
Matching ==
    {i \in 1..Len(req.exception) :
        default_exception(req.exception[i]) = req.func.outcome}

\* of a driver message, what follows its first colon, or all of it when it
\* has no colon, without the blanks around it
RECURSIVE AfterColon(_, _)
AfterColon(msg, seen) ==
    IF msg = <<>> THEN <<>>
    ELSE IF seen THEN msg
    ELSE IF Head(msg) = ":" THEN Tail(msg)
    ELSE AfterColon(Tail(msg), FALSE)

Extracted(msg) ==
    LET part == IF \E i \in 1..Len(msg) : msg[i] = ":"
                THEN AfterColon(msg, FALSE) ELSE msg
        inner == {i \in 1..Len(part) : part[i] # " "}
    IN  IF inner = {} THEN <<>>
        ELSE SubSeq(part, CHOOSE i \in inner : \A j \in inner : i <= j,
                          CHOOSE i \in inner : \A j \in inner : i >= j)

\* the extracted texts of the fault's driver messages, "; " between them
RECURSIVE ExtractedText(_)
ExtractedText(args) ==
    IF args = <<>> THEN <<>>
    ELSE Extracted(Head(args))
         \o (IF Len(args) > 1 THEN <<"; ">> ELSE <<>>)
         \o ExtractedText(Tail(args))

\* the template with its slot, if it has one, filled with the text
Filled(template, text) ==
    IF \E i \in 1..Len(template) : template[i] = "{}"
    THEN LET slot == CHOOSE i \in 1..Len(template) : template[i] = "{}"
         IN  SubSeq(template, 1, slot - 1) \o text
             \o SubSeq(template, slot + 1, Len(template))
    ELSE template

\* C21: when the wrapped handler raises a generic statement or request
\* error of the store, the wrapper raises the HTTP error of the first
\* declared kind, in declaration order, whose native exception type is the
\* fault's: that kind's default status, and its default message template
\* filled with the text extracted from the driver messages (of each the
\* part after its first colon, or all of it when it has no colon); when no
\* declared kind matches, the fault is re-raised unchanged.
C21_FirstKindTranslates ==
    GenericFault =>
        IF Matching = {}
        THEN /\ res.outcome = req.func.outcome
             /\ res.raised = req.func.outcome
             /\ res.status = 500
             /\ res.detail = NoDetail
        ELSE LET ex == req.exception[CHOOSE i \in Matching :
                                        \A j \in Matching : i <= j]
             IN  /\ res.outcome = "HTTPException"
                 /\ res.status = default_code(ex)
                 /\ res.detail.text =
                        Filled(default_detail(ex),
                               ExtractedText(req.func.orig.args))

\* an integrity error with two driver messages, one with colons and one
\* without, translated by the second declared kind
C21_Witness ==
    /\ GenericFault
    /\ req.func.outcome = "IntegrityError"
    /\ req.exception = <<"NoResultFoundException", "IntegrityErrorException">>
    /\ Len(req.func.orig.args) = 2
    /\ \E i \in 1..Len(req.func.orig.args[1]) : req.func.orig.args[1][i] = ":"
    /\ \A i \in 1..Len(req.func.orig.args[2]) : req.func.orig.args[2][i] # ":"
    /\ res.status = 400
    /\ res.detail.text =
          <<"Got an error on add: ", "duplicate key value violates unique constraint",
            "; ", "connection was closed">>

(***************************************************************************)
(* The hook of the CSV import (under RouteSpec).                           *)
(***************************************************************************)
\* how many times the handler made the call
Times(call) == Cardinality({i \in 1..Len(res.calls) : res.calls[i] = call})

\* what the hook of the request returns for the validated rows
HookReturn == IF req.file = <<>> THEN <<>> ELSE Tail(req.file)

\* C22: in the CSV import with a hook configured, when every row validates
\* the hook is called exactly once, after all the rows were validated and
\* before bulk_merge_create; bulk_merge_create is called once with exactly
\* what the hook returned and with is_simple_insert true iff the requested
\* mode is insert (a request without a mode is a merge); the commit comes
\* after the bulk call, once it has returned, and never without it.
C22_HookThenBulkThenCommit ==
    (CsvImport /\ req.csv_preparer # "None" /\ FirstBad = 0) =>
        /\ res.examined = Len(req.file)
        /\ Times("csv_preparer") = 1
        /\ res.calls[1] = "csv_preparer"
        /\ Times("bulk_merge_create") <= 1
        /\ Times("commit") <= Times("bulk_merge_create")
        /\ req.csv_preparer = "tail" =>
              /\ Len(res.calls) >= 2
              /\ res.calls[2] = "bulk_merge_create"
              /\ res.passed.obj_list = HookReturn
              /\ res.passed.is_simple_insert = (req.mode = "insert")
              /\ IF res.raised = "ok"
                 THEN res.calls = <<"csv_preparer", "bulk_merge_create", "commit">>
                 ELSE res.calls = <<"csv_preparer", "bulk_merge_create">>
        /\ req.csv_preparer = "raise" => res.calls = <<"csv_preparer">>

\* two valid rows imported in insert mode through the hook that drops the
\* first
C22_Witness ==
    /\ CsvImport /\ req.csv_preparer = "tail" /\ FirstBad = 0
    /\ Len(req.file) = 2
    /\ req.mode = "insert"
    /\ res.passed.obj_list = <<req.file[2]>>
    /\ res.passed.is_simple_insert
    /\ res.calls = <<"csv_preparer", "bulk_merge_create", "commit">>
    /\ Len(store) = Len(pre) + 1

(***************************************************************************)
(* Concurrent merge-mode imports (under MergeSpec).                        *)
(***************************************************************************)
\* the key tuples of the rows or dictionaries of s, by the constraint
TupleKeys(s) == {KeyOf(unique_constr_names(model), s[k]) : k \in 1..Len(s)}

\* the key tuples that both batches contain and the table did not at start
SharedAbsent == (TupleKeys(req[1]) \cap TupleKeys(req[2])) \ TupleKeys(pre[1].seen)

\* both requests have ended
BothDone == \A i \in Requests : res[i].pc = "done"

\* the position in the log of the step of request i, 0 if not taken
StepAt(i, step) ==
    IF \E a \in 1..Len(pre) : pre[a].request = i /\ pre[a].step = step
    THEN CHOOSE a \in 1..Len(pre) : pre[a].request = i /\ pre[a].step = step
    ELSE 0

\* C23 as claimed: in every interleaving of two merge-mode imports whose
\* batches both contain a key tuple absent from the table, the table ends
\* with exactly one row for that key and neither request fails with a
\* uniqueness violation.
C23_NoViolationAsClaimed ==
    (BothDone /\ SharedAbsent # {}) =>
        /\ \A key \in SharedAbsent :
              Cardinality({k \in 1..Len(store) :
                  KeyOf(unique_constr_names(model), store[k]) = key}) = 1
        /\ \A i \in Requests : res[i].outcome # "IntegrityError"

\* C23 (amended): in every interleaving the table ends with exactly one row
\* for that key and at least one request succeeds; a request whose
\* existence query runs after the other request's commit does not fail, and
\* a request fails with a uniqueness violation only when its existence
\* query ran before the commit of the other request, which inserted a key
\* of its batch; no insert is issued for a key tuple that was in the
\* committed table at the moment of the request's existence query.
C23_OneRowPerKey ==
    /\ \A i \in Requests :
          res[i].pc # "ready" =>
              TupleKeys(res[i].to_insert) \cap TupleKeys(pre[StepAt(i, "query")].seen) = {}
    /\ (BothDone /\ SharedAbsent # {}) =>
          /\ \A key \in SharedAbsent :
                Cardinality({k \in 1..Len(store) :
                    KeyOf(unique_constr_names(model), store[k]) = key}) = 1
          /\ \E i \in Requests : res[i].outcome = "ok"
          /\ \A i \in Requests : \A j \in Requests \ {i} :
                /\ (StepAt(j, "commit") # 0
                    /\ StepAt(j, "commit") < StepAt(i, "query"))
                   => res[i].outcome = "ok"
                /\ res[i].outcome = "IntegrityError" =>
                      /\ res[j].outcome = "ok"
                      /\ StepAt(i, "query") < StepAt(j, "commit")
                      /\ StepAt(j, "commit") < StepAt(i, "flush")
                      /\ TupleKeys(res[j].inserted) \cap TupleKeys(res[i].to_insert) # {}

\* both requests queried before either committed: the second to flush
\* failed, and the table has the one row of the first
C23_Witness ==
    /\ BothDone /\ SharedAbsent # {}
    /\ pre[1].seen = <<>>
    /\ res[1].outcome = "ok"
    /\ res[2].outcome = "IntegrityError"
    /\ StepAt(2, "query") < StepAt(1, "commit")
    /\ Len(store) = 1
    /\ store[1]["name"] = "X"

====
